---- MODULE Spec2Model ----
(***************************************************************************)
(* Model of the MCAN driver (crate `mcan`): the interrupt ownership        *)
(* registry, the configuration/operation state machine of the bus          *)
(* controller and the transmit buffers.                                    *)
(*                                                                         *)
(* Register bit masks (u32) are modelled as sets of bit positions:         *)
(*   a & b  is  a \cap b,   a | b  is  a \cup b,   a & !b  is  a \ b.      *)
(***************************************************************************)
EXTENDS Integers, Naturals, Sequences, FiniteSets, TLC

(***************************************************************************)
(* Bounds of the model                                                     *)
(***************************************************************************)
\* number of OwnedInterruptSet handles the application holds at once
MaxHandles == 3

(***************************************************************************)
(* State                                                                   *)
(***************************************************************************)
\* ---- interrupt ownership registry ----------------------------------------
VARIABLES
    disabled,   \* InterruptConfiguration.disabled: the flags the registry owns
    handles,    \* the outstanding OwnedInterruptSet handles (their masks)
    ie,         \* register IE  (interrupt enable)
    ils,        \* register ILS (line select, bit set = line 1)
    ile,        \* register ILE (the enabled interrupt lines)
    irqRes,     \* the last registry call, its arguments and its result
    irqTick     \* flips on every call of the registry

irqVars == <<disabled, handles, ie, ils, ile, irqRes, irqTick>>

\* ---- interrupt flags as the handles see them --------------------------------
VARIABLES
    ir,         \* register IR: the pending interrupt flags
    flagPc,     \* position inside a running call of iter_flagged
    flagRes     \* the last call on a handle, its arguments and its result
                \* (late: the owned flags raised while iter_flagged ran)

flagVars == <<ir, flagPc, flagRes>>

\* ---- bus controller -------------------------------------------------------
VARIABLES
    phase,      \* which handle the application holds: "None" (nothing built
                \* yet), "Configurable" (CanConfigurable), "Operational" (Can),
                \* "Dropped" (a constructor or finalize returned Err)
    busPc,      \* position inside a running call of the controller
    init,       \* CCCR.INIT as the peripheral reports it
    initReq,    \* CCCR.INIT as last written (the peripheral follows later)
    cce,        \* CCCR.CCE as the peripheral reports it
    cceReq,     \* CCCR.CCE as last written
    reg,        \* the configuration registers
    wlog,       \* the registers written by the running (or last) call, in order
    config,     \* Aux.config: the CanConfig the application edits
    filters,    \* the two filter tables: slots in Message RAM and Filters.len
    memStart,   \* address of the SharedMemory handed to the constructor
    busRes      \* the last controller call and its result

busVars == <<phase, busPc, init, initReq, cce, cceReq, reg, wlog, config,
             filters, memStart, busRes>>

\* ---- transmit buffers ----------------------------------------------------
VARIABLES
    txmem,      \* Tx.memory: the TX buffer elements in Message RAM
    txbar,      \* register TXBAR: add requests the peripheral still holds
    txbrp,      \* register TXBRP: transmission requests pending
    txbto,      \* register TXBTO: transmission occurred
    tfqpi,      \* the put pointer of the peripheral's TX FIFO/queue
    txPc,       \* position inside a running transmit call
    txRes,      \* the last call of Tx and its result
    txTick,     \* flips whenever a call of Tx returns
    txRun,      \* the results of the transmit_queued calls made in a row
                \* since construction; switched off once a transmission
                \* completed or another method of Tx was called
    txbcr,      \* register TXBCR: cancellation requests the peripheral holds
    txbcf,      \* register TXBCF: cancellation finished
    cancelPc,   \* position inside a running cancel_multi call
    cancelRes   \* the last cancel_multi call and its result

txVars == <<txmem, txbar, txbrp, txbto, tfqpi, txPc, txRes, txTick, txRun,
            txbcr, txbcf, cancelPc, cancelRes>>

\* ---- receive FIFO and transmit event FIFO --------------------------------
VARIABLES
    rxMode,     \* RXFnC.FnOM as configured: "Blocking" or "Overwrite"
    rxf,        \* the RX FIFO in the peripheral: its elements in Message RAM
                \* (RxFifo.memory), put index, get index (RXFnS.FnGI) and
                \* fill level (RXFnS.FnFL)
    rxPc,       \* position inside a running RxFifo::receive
    rxRes,      \* the last call of RxFifo and its result
    rxIn,       \* the messages the peripheral has stored, in order
    rxOut,      \* the messages the calls have returned, in order
    txef,       \* the TX event FIFO in the peripheral (TxEventFifo.memory,
                \* TXEFS.EFGI, TXEFS.EFFL)
    txePc,      \* position inside a running TxEventFifo::pop
    txeRes,     \* the last pop and its result
    txeIn       \* the number of events the peripheral has stored

fifoVars == <<rxMode, rxf, rxPc, rxRes, rxIn, rxOut, txef, txePc, txeRes, txeIn>>

\* ---- dedicated receive buffers --------------------------------------------
VARIABLES
    rxbmem,     \* RxDedicatedBuffer.memory: the identifiers of the messages
                \* in the dedicated RX buffers
    ndat,       \* registers NDAT1 (flags 0..31) and NDAT2 (flags 32..63)
    rxbRes,     \* the last call of RxDedicatedBuffer and its result
    idOrd,      \* which total order embedded_can::Id implements
    rxbFed,     \* the buffers the configured filters store messages in
    overflow_checks
                \* whether the build checks integer arithmetic for overflow
                \* (the profile setting overflow-checks)

rxbVars == <<rxbmem, ndat, rxbRes, idOrd, rxbFed, overflow_checks>>
rxbEnv == <<idOrd, rxbFed, overflow_checks>>

\* ---- functions without state ------------------------------------------------
VARIABLES
    fnIn,       \* the function under study and its arguments
    fnOut       \* what it has returned, once it was applied

fnVars == <<fnIn, fnOut>>

\* ---- who writes which register -------------------------------------------------
VARIABLES
    ownSt,      \* which components exist: the state of the controller, the
                \* flags the registry holds and the masks of the handles
    wr          \* the register and memory writes of the last operation, as
                \* pairs of the component that wrote and what it wrote

ownVars == <<ownSt, wr>>

vars == <<irqVars, flagVars, busVars, txVars, fifoVars, rxbVars, fnVars,
          ownVars>>

\* what the operations of one component leave alone
IrqOthers == <<flagVars, busVars, txVars, fifoVars, rxbVars, fnVars,
    ownVars>>
BusOthers == <<flagVars, irqVars, txVars, fifoVars, rxbVars, fnVars,
    ownVars>>
TxOthers == <<flagVars, irqVars, busVars, fifoVars, rxbVars, fnVars,
    ownVars>>
FifoOthers == <<flagVars, irqVars, busVars, txVars, rxbVars, fnVars,
    ownVars>>
RxbOthers == <<flagVars, irqVars, busVars, txVars, fifoVars, fnVars,
    ownVars>>
FnOthers == <<flagVars, irqVars, busVars, txVars, fifoVars, rxbVars,
    ownVars>>
FlagOthers == <<irqVars, busVars, txVars, fifoVars, rxbVars, fnVars,
    ownVars>>
OwnOthers == <<irqVars, flagVars, busVars, txVars, fifoVars, rxbVars, fnVars>>

(***************************************************************************)
(* Interrupt ownership registry  (src/mcan/src/interrupt.rs)               *)
(***************************************************************************)
\* InterruptSet(0x3fff_ffff): bits 0..29, the reserved bits 30 and 31 excluded
AllInterrupts == 0..29

\* the interrupt sets the application asks for
ReqBits == {0, 9, 29}
Requests == SUBSET ReqBits

InterruptLines == {"Line0", "Line1"}

\* contents of IE before the registry is constructed (reset value and a
\* value left behind by earlier code)
PriorIE == {{}, {0, 29}}

NoCall == [op |-> "none"]

\* OwnedInterruptSet::split, the flags of subset that self does not hold
split_missing_none(own, subset) == {}
split_missing(own, subset) == subset \ own

\* OwnedInterruptSet::split, what self keeps
split_remaining(own, subset) == own \ subset

\* OwnedInterruptSet::join
join_keep(own, other) == own
join(own, other) == own \cup other

\* InterruptConfiguration::set_line, the new value of ILS
set_line_whole(r, mask, line) ==
    IF line = "Line0" THEN {} ELSE r \cup mask
set_line_bits(r, mask, line) ==
    IF line = "Line0" THEN r \ mask ELSE r \cup mask

\* InterruptConfiguration::enable_line, the new value of ILE
enable_line_bits(r, line) == r \cup {line}

\* InterruptConfiguration::set_enabled, the new value of IE
set_enabled_bits(r, mask, enabled) ==
    IF enabled THEN r \cup mask ELSE r \ mask

\* InterruptConfiguration::new: the registry owns every flag, ILS is written
\* with its reset value
IrqInit ==
    /\ disabled = AllInterrupts
    /\ handles = <<>>
    /\ ie \in PriorIE
    /\ ils = {}
    /\ ile = {}
    /\ irqRes = NoCall
    /\ irqTick = FALSE

\* what a call of the registry found: IE and the flags the registry owned
IrqBefore == [ie |-> ie, disabled |-> disabled]

\* the i-th handle is the one the call before this one has returned
JustEnabled(i) ==
    /\ irqRes.op = "enable" /\ irqRes.res = "Ok"
    /\ i = Len(handles)

\* InterruptConfiguration::enable
Enable(interrupts, line) ==
    LET missing == split_missing(disabled, interrupts) IN
    /\ irqTick' = ~irqTick
    /\ IF missing # {}
       THEN /\ irqRes' = [op |-> "enable", req |-> interrupts, line |-> line,
                          res |-> "MaskError", err |-> missing,
                          before |-> IrqBefore]
            /\ UNCHANGED <<disabled, handles, ie, ils, ile>>
       ELSE /\ Len(handles) < MaxHandles
            /\ disabled' = split_remaining(disabled, interrupts)
            /\ handles' = Append(handles, interrupts)
            /\ ile' = enable_line_bits(ile, line)
            /\ ils' = set_line_bits(ils, interrupts, line)
            /\ ie' = set_enabled_bits(ie, interrupts, TRUE)
            /\ irqRes' = [op |-> "enable", req |-> interrupts, line |-> line,
                          res |-> "Ok", err |-> {}, before |-> IrqBefore]
    /\ UNCHANGED IrqOthers

RemoveAt(s, i) == SubSeq(s, 1, i - 1) \o SubSeq(s, i + 1, Len(s))

\* InterruptConfiguration::disable, called with the i-th outstanding handle
Disable(i) ==
    /\ i \in 1..Len(handles)
    /\ irqTick' = ~irqTick
    /\ ie' = set_enabled_bits(ie, handles[i], FALSE)
    /\ disabled' = join(disabled, handles[i])
    /\ handles' = RemoveAt(handles, i)
    /\ irqRes' = [op |-> "disable", req |-> handles[i], line |-> "Line0",
                  res |-> "Ok", err |-> {}, before |-> IrqBefore,
                  undo |-> JustEnabled(i),
                  at |-> IF JustEnabled(i) THEN irqRes.before ELSE IrqBefore]
    /\ UNCHANGED <<ils, ile>>
    /\ UNCHANGED IrqOthers

\* InterruptConfiguration::set_line, called with the i-th outstanding handle
SetLine(i, line) ==
    /\ i \in 1..Len(handles)
    /\ irqTick' = ~irqTick
    /\ ile' = enable_line_bits(ile, line)
    /\ ils' = set_line_bits(ils, handles[i], line)
    /\ irqRes' = [op |-> "set_line", req |-> handles[i], line |-> line,
                  res |-> "Ok", err |-> {}]
    /\ UNCHANGED <<disabled, handles, ie>>
    /\ UNCHANGED IrqOthers

IrqEnable == \E s \in Requests, l \in InterruptLines : Enable(s, l)
IrqDisable == \E i \in 1..MaxHandles : Disable(i)
IrqSetLine == \E i \in 1..MaxHandles, l \in InterruptLines : SetLine(i, l)

IrqNext == IrqEnable \/ IrqDisable \/ IrqSetLine

\* ---- the handles and the pending flags --------------------------------------
\* the flags the peripheral raises
FlagBits == ReqBits

\* contents of IR when the registry is constructed
PriorIR == {{}, {0}}

\* the sets handed to clear_interrupts
ClearArgs == {{0}, {0, 9}, AllInterrupts}

FlagIdle == [on |-> FALSE, own |-> {}, interrupts |-> {}]
NoFlagCall ==
    [op |-> "none", own |-> {}, arg |-> {}, val |-> {}, items |-> <<>>,
     late |-> {}]

FlagInit ==
    /\ ir \in PriorIR
    /\ flagPc = FlagIdle
    /\ flagRes = NoFlagCall

\* OwnedInterruptSet::interrupt_flags: the value it returns
interrupt_flags_all(own, irv) == irv
interrupt_flags(own, irv) == irv \cap own

\* OwnedInterruptSet::clear_interrupts: the value it writes to IR
clear_interrupts_all(own, interrupts) == interrupts
clear_interrupts(own, interrupts) == interrupts \cap own

\* IR is cleared by writing 1: a written 0 leaves the flag as it is
IrWrite(irv, w) == irv \ w

\* Iter::next up to its return or its call of itself: what it does at index
IterStepAll(flags, index) ==
    LET next == IF index < 255 THEN index + 1 ELSE 255 IN
    IF index >= 32 THEN [ret |-> "None", val |-> 0, index |-> next]
    ELSE IF index \in flags THEN [ret |-> "Some", val |-> index, index |-> next]
    ELSE [ret |-> "next", val |-> 0, index |-> next]
IterStep(flags, index) ==
    LET next == IF index < 255 THEN index + 1 ELSE 255 IN
    IF index >= 30 THEN [ret |-> "None", val |-> 0, index |-> next]
    ELSE IF index \in flags THEN [ret |-> "Some", val |-> index, index |-> next]
    ELSE [ret |-> "next", val |-> 0, index |-> next]

\* Iter::next: the item, and the index the iterator is left with
RECURSIVE IterNext(_, _)
IterNext(flags, index) ==
    LET st == IterStep(flags, index) IN
    IF st.ret = "next" THEN IterNext(flags, st.index)
    ELSE [some |-> st.ret = "Some", val |-> st.val, index |-> st.index]

\* the items of InterruptSet::iter, in the order they are yielded
RECURSIVE IterItemsFrom(_, _)
IterItemsFrom(flags, index) ==
    LET n == IterNext(flags, index) IN
    IF n.some THEN <<n.val>> \o IterItemsFrom(flags, n.index) ELSE <<>>
IterItems(flags) == IterItemsFrom(flags, 0)

\* the peripheral raises a flag
HwRaise(b) ==
    /\ b \notin ir
    /\ ir' = ir \cup {b}
    /\ UNCHANGED <<flagPc, flagRes>>
    /\ UNCHANGED FlagOthers

\* OwnedInterruptSet::interrupt_flags on the i-th outstanding handle
InterruptFlags(i) ==
    /\ i \in 1..Len(handles)
    /\ flagRes' = [op |-> "interrupt_flags", own |-> handles[i], arg |-> {},
                   val |-> interrupt_flags(handles[i], ir), items |-> <<>>,
                   late |-> {}]
    /\ UNCHANGED <<ir, flagPc>>
    /\ UNCHANGED FlagOthers

\* OwnedInterruptSet::clear_interrupts on the i-th outstanding handle
ClearInterrupts(i, interrupts) ==
    /\ i \in 1..Len(handles)
    /\ ~(flagPc.on /\ flagPc.own = handles[i])
    /\ ir' = IrWrite(ir, clear_interrupts(handles[i], interrupts))
    /\ flagRes' = [op |-> "clear_interrupts", own |-> handles[i],
                   arg |-> interrupts, val |-> {}, items |-> <<>>,
                   late |-> {}]
    /\ UNCHANGED flagPc
    /\ UNCHANGED FlagOthers

\* OwnedInterruptSet::iter_flagged on the i-th outstanding handle: the read
IterFlaggedRead(i) ==
    /\ i \in 1..Len(handles)
    /\ ~flagPc.on
    /\ flagPc' = [on |-> TRUE, own |-> handles[i],
                  interrupts |-> interrupt_flags(handles[i], ir)]
    /\ UNCHANGED <<ir, flagRes>>
    /\ UNCHANGED FlagOthers

\* OwnedInterruptSet::iter_flagged: the clear, and the iterator it returns
IterFlaggedClear ==
    /\ flagPc.on
    /\ ir' = IrWrite(ir, clear_interrupts(flagPc.own, flagPc.interrupts))
    /\ flagRes' = [op |-> "iter_flagged", own |-> flagPc.own,
                   arg |-> {}, val |-> flagPc.interrupts,
                   items |-> IterItems(flagPc.interrupts),
                   late |-> (ir \cap flagPc.own) \ flagPc.interrupts]
    /\ flagPc' = FlagIdle
    /\ UNCHANGED FlagOthers

\* the application takes the handles it uses from the registry
FlagsEnable ==
    \E s \in Requests \ {{}} : s \subseteq disabled /\ Enable(s, "Line0")

FlagsHwRaise == \E b \in FlagBits : HwRaise(b)
FlagsInterruptFlags == \E i \in 1..MaxHandles : InterruptFlags(i)
FlagsClearInterrupts ==
    \E i \in 1..MaxHandles, s \in ClearArgs : ClearInterrupts(i, s)
FlagsIterFlaggedRead == \E i \in 1..MaxHandles : IterFlaggedRead(i)

FlagsNext ==
    \/ FlagsEnable
    \/ FlagsHwRaise
    \/ FlagsInterruptFlags
    \/ FlagsClearInterrupts
    \/ FlagsIterFlaggedRead
    \/ IterFlaggedClear

FlagQuiet == FlagInit /\ ir = {}

(***************************************************************************)
(* Bus controller: construction, configuration, finalize                   *)
(* (src/mcan/src/bus.rs, src/mcan/src/config.rs, src/mcan/src/filter.rs,   *)
(*  src/mcan/src/messageram.rs; the mode transitions of the register block *)
(*  as in src/src/bus.rs)                                                  *)
(***************************************************************************)
\* ---- capacities (the type parameters of `Capacities`) -------------------
CapStdFilters == 2
CapExtFilters == 1
CapRxFifo0 == 2
CapRxFifo1 == 1
CapRxBuffers == 3
CapTxEventFifo == 1
CapTxBuffers == 3
CapDedicatedTx == 1

\* sizes in bytes of the elements of SharedMemoryInner (8 byte payloads)
SizeStdFilter == 4
SizeExtFilter == 8
SizeMessage == 16
SizeTxEvent == 8

\* core::mem::size_of::<SharedMemory<C>>()
SizeOfSharedMemory ==
    CapStdFilters * SizeStdFilter + CapExtFilters * SizeExtFilter
    + (CapRxFifo0 + CapRxFifo1 + CapRxBuffers + CapTxBuffers) * SizeMessage
    + CapTxEventFifo * SizeTxEvent

\* messageram::SYSTEM_RAM, the start of the eligible RAM
SYSTEM_RAM == 536870912
\* 1 << 16, the span the peripheral can address
AddressableSpan == 65536

\* SharedMemory::is_addressable
is_addressable_strict(start) ==
    LET end_exclusive == start + SizeOfSharedMemory IN
    /\ SYSTEM_RAM <= start
    /\ end_exclusive - SYSTEM_RAM < AddressableSpan
is_addressable(start) ==
    LET end_exclusive == start + SizeOfSharedMemory IN
    /\ SYSTEM_RAM <= start
    /\ end_exclusive - SYSTEM_RAM <= AddressableSpan

\* placements of the SharedMemory the application may have chosen
MemStarts == {SYSTEM_RAM - 4, SYSTEM_RAM + 256,
              SYSTEM_RAM + AddressableSpan - SizeOfSharedMemory + 4}

\* `ptr as u16`
AsU16(a) == a % 65536

\* ---- bit timing (config.rs) ----------------------------------------------
\* NOMINAL_BIT_TIMING_RANGES / DATA_BIT_TIMING_RANGES
NOMINAL_BIT_TIMING_RANGES ==
    [sjw |-> 1..128, phase_seg_1 |-> 2..256, phase_seg_2 |-> 2..128,
     time_quanta_per_bit |-> 5..385, prescaler |-> 1..512]
DATA_BIT_TIMING_RANGES ==
    [sjw |-> 1..16, phase_seg_1 |-> 1..32, phase_seg_2 |-> 1..16,
     time_quanta_per_bit |-> 3..49, prescaler |-> 1..32]

Ok(v) == [ok |-> TRUE, val |-> v, err |-> "none"]
Err(e) == [ok |-> FALSE, val |-> 0, err |-> e]

\* BitTiming::time_quanta_per_bit
time_quanta_per_bit(t) == 1 + t.phase_seg_1 + t.phase_seg_2

\* no check of the timing at all
check_nothing(t, valid) == Ok(0)
\* BitTiming::check
check(t, valid) ==
    IF t.sjw \notin valid.sjw
    THEN Err("SynchronizationJumpWidthOutOfRange")
    ELSE IF t.phase_seg_1 \notin valid.phase_seg_1
    THEN Err("PhaseSeg1OutOfRange")
    ELSE IF t.phase_seg_2 \notin valid.phase_seg_2
    THEN Err("PhaseSeg2OutOfRange")
    ELSE IF time_quanta_per_bit(t) \notin valid.time_quanta_per_bit
    THEN Err("BitTimeOutOfRange")
    ELSE Ok(0)

\* `f_out * bit_time_quanta`, the product of two u32 (a below 2^31, b below
\* 2^15), computed in halves of 16 bits: whether it overflows 32 bits, and
\* the halves of the product modulo 2^32
MulU32(a, b) ==
    LET lo == (a % 65536) * b
        hi == (a \div 65536) * b + lo \div 65536
    IN  [overflow |-> hi >= 65536, hi |-> hi % 65536, lo |-> lo % 65536]

\* BitTiming::prescaler. The multiplication panics on overflow where
\* overflow is checked and wraps where it is not; a wrapped f_q of 2^31 or
\* more is larger than every clock
prescaler(t, f_can, valid) ==
    LET c == check(t, valid)
        bit_time_quanta == time_quanta_per_bit(t)
        m == MulU32(t.bitrate, bit_time_quanta)
        f_q == m.hi * 65536 + m.lo
    IN  IF ~c.ok THEN c
        ELSE IF m.overflow /\ overflow_checks THEN Err("panic")
        ELSE IF m.hi >= 32768
        THEN IF f_can = 0 THEN Err("PrescalerOutOfRange")
             ELSE Err("NoValidPrescaler")
        ELSE IF f_q # 0 /\ f_can % f_q = 0
        THEN LET p == f_can \div f_q IN
             IF p \notin valid.prescaler
             THEN Err("PrescalerOutOfRange")
             ELSE Ok(p)
        ELSE Err("NoValidPrescaler")

\* Dependencies::can_clock of the platform
CanClock == 48 * 1000000

\* BitTiming::new
BitTimingNew(bitrate) ==
    [sjw |-> 4, phase_seg_1 |-> 11, phase_seg_2 |-> 4, bitrate |-> bitrate]

\* CanConfig::new
CanConfigNew(bitrate) ==
    [mode |-> "Classic", brs |-> FALSE, data_phase_timing |-> BitTimingNew(0),
     loopback |-> FALSE, nominal_timing |-> BitTimingNew(bitrate),
     ts_select |-> 0, ts_prescaler |-> 1,
     rx_fifo_0 |-> [overwrite |-> FALSE, watermark |-> 0],
     rx_fifo_1 |-> [overwrite |-> FALSE, watermark |-> 0],
     tx |-> [tx_event_fifo_watermark |-> 0, priority |-> FALSE]]

\* ---- the values the application writes into the CanConfig ---------------
Bitrates == {500000}
TsPrescalers == {0, 1, 2, 16, 17, 255}
NominalTimings ==
    {BitTimingNew(500000),                       \* prescaler 6
     [BitTimingNew(500000) EXCEPT !.sjw = 0],    \* sjw out of range
     BitTimingNew(7000000)}                      \* clock not divisible
DataTimings ==
    {[sjw |-> 2, phase_seg_1 |-> 5, phase_seg_2 |-> 2, bitrate |-> 2000000],
     [sjw |-> 2, phase_seg_1 |-> 40, phase_seg_2 |-> 2, bitrate |-> 2000000]}

\* ---- registers -------------------------------------------------------------
\* reset values of the configuration registers
RegReset ==
    [nbtp  |-> [nsjw |-> 3, ntseg1 |-> 10, ntseg2 |-> 3, nbrp |-> 0],
     dbtp  |-> [dsjw |-> 3, dtseg1 |-> 10, dtseg2 |-> 3, dbrp |-> 0],
     tscc  |-> [tss |-> 0, tcp |-> 0],
     cccr  |-> [fdoe |-> FALSE, brse |-> FALSE, test |-> FALSE],
     test  |-> [lbck |-> FALSE],
     gfc   |-> [anfs |-> "reset", anfe |-> "reset"],
     sidfc |-> [flssa |-> 0, lss |-> 0],
     xidfc |-> [flesa |-> 0, lse |-> 0],
     rxbc  |-> [rbsa |-> 0],
     rxesc |-> [rbds |-> 0, f0ds |-> 0, f1ds |-> 0],
     rxf0c |-> [fsa |-> 0, fs |-> 0, fwm |-> 0, fom |-> FALSE],
     rxf1c |-> [fsa |-> 0, fs |-> 0, fwm |-> 0, fom |-> FALSE],
     txbc  |-> [tbsa |-> 0, ndtb |-> 0, tfqs |-> 0, tfqm |-> FALSE],
     txesc |-> [tbds |-> 0],
     txefc |-> [efsa |-> 0, efs |-> 0, efwm |-> 0]]

\* gfc::ANFS_A::REJECT, gfc::ANFE_A::REJECT
REJECT == "REJECT"

Idle == [op |-> "idle", at |-> "idle"]

EmptyFilters ==
    [std |-> [memory |-> [i \in 0..(CapStdFilters - 1) |->
                             [sft |-> 0, sfec |-> 0, sfid1 |-> 0, sfid2 |-> 0]],
              len |-> 0],
     ext |-> [memory |-> [i \in 0..(CapExtFilters - 1) |->
                             [efec |-> 0, efid1 |-> 0, eft |-> 0, efid2 |-> 0]],
              len |-> 0]]

\* SharedMemory::new leaves the memory uninitialized: what the filter
\* regions may hold before the constructor runs (zeroes by chance, or
\* elements that accept messages)
LeftoverFilters ==
    [std |-> [memory |-> [i \in 0..(CapStdFilters - 1) |->
                             [sft |-> 2, sfec |-> 1, sfid1 |-> 0, sfid2 |-> 0]],
              len |-> 0],
     ext |-> [memory |-> [i \in 0..(CapExtFilters - 1) |->
                             [efec |-> 1, efid1 |-> 0, eft |-> 2, efid2 |-> 0]],
              len |-> 0]]
UninitFilters == {EmptyFilters, LeftoverFilters}

\* SharedMemory::init: the whole memory is zeroed; Filters::new takes the
\* zeroed tables with len 0
SharedMemoryInitKeep(m) == m
SharedMemoryInit(m) == EmptyFilters

\* the peripheral after reset, before the driver is constructed
BusInit ==
    /\ phase = "None"
    /\ busPc = Idle
    /\ init = FALSE /\ initReq = FALSE
    /\ cce = FALSE /\ cceReq = FALSE
    /\ reg = RegReset
    /\ wlog = <<>>
    /\ config = CanConfigNew(500000)
    /\ filters \in UninitFilters
    /\ memStart \in MemStarts
    /\ busRes = [op |-> "none", res |-> "none"]

\* ---- the peripheral ----------------------------------------------------------
\* the peripheral takes over a written INIT value; leaving initialization
\* clears CCE
HwAckInit ==
    /\ init # initReq
    /\ init' = initReq
    /\ IF initReq THEN UNCHANGED <<cce, cceReq>>
       ELSE cce' = FALSE /\ cceReq' = FALSE
    /\ UNCHANGED <<phase, busPc, initReq, reg, wlog, config, filters,
                   memStart, busRes>>
    /\ UNCHANGED BusOthers

\* the peripheral takes over a written CCE value (CCE can be set only while
\* INIT is set)
HwAckCce ==
    /\ cce # cceReq
    /\ init
    /\ cce' = cceReq
    /\ UNCHANGED <<phase, busPc, init, initReq, cceReq, reg, wlog, config,
                   filters, memStart, busRes>>
    /\ UNCHANGED BusOthers

\* Bus_Off: the peripheral stops bus operation on its own by setting INIT
HwBusOff ==
    /\ phase = "Operational"
    /\ busPc = Idle
    /\ ~init /\ ~initReq
    /\ init' = TRUE /\ initReq' = TRUE
    /\ UNCHANGED <<phase, busPc, cce, cceReq, reg, wlog, config, filters,
                   memStart, busRes>>
    /\ UNCHANGED BusOthers

\* ---- the busy polls of the mode transitions ------------------------------
\* `while !cccr.read().init().bit() {}` has ended
InitPollNoWait == TRUE
InitPollDone == init
\* `while !cccr.read().cce().bit() {}` has ended
CcePollNoWait == TRUE
CcePollDone == cce
\* `while cccr.read().init().bit() {}` has ended
OperationalPollNoWait == TRUE
OperationalPollDone == ~init

\* ---- reg::Can::configuration_mode ---------------------------------------
\* cccr.modify(init = 1), then poll
ConfigurationModeBegin(op) ==
    /\ initReq' = TRUE
    /\ wlog' = <<"cccr.init">>
    /\ busPc' = [op |-> op, at |-> "wait_init"]
    /\ UNCHANGED <<init, cce, cceReq, reg>>

\* the poll of INIT has read 1: cccr.modify(cce = 1), then poll
ConfigurationModeCce ==
    /\ busPc.at = "wait_init"
    /\ InitPollDone
    /\ cceReq' = TRUE
    /\ wlog' = Append(wlog, "cccr.cce")
    /\ busPc' = [busPc EXCEPT !.at = "wait_cce"]
    /\ UNCHANGED <<phase, init, initReq, cce, reg, config, filters, memStart,
                   busRes>>
    /\ UNCHANGED BusOthers

\* ---- CanConfigurable::apply_ram_config --------------------------------------
OffStd == 0
OffExt == OffStd + CapStdFilters * SizeStdFilter
OffRxFifo0 == OffExt + CapExtFilters * SizeExtFilter
OffRxFifo1 == OffRxFifo0 + CapRxFifo0 * SizeMessage
OffRxBuffers == OffRxFifo1 + CapRxFifo1 * SizeMessage
OffTxEvent == OffRxBuffers + CapRxBuffers * SizeMessage
OffTxBuffers == OffTxEvent + CapTxEventFifo * SizeTxEvent

apply_ram_config(r, mem) ==
    [r EXCEPT
       !.sidfc = [flssa |-> AsU16(mem + OffStd), lss |-> CapStdFilters],
       !.xidfc = [flesa |-> AsU16(mem + OffExt), lse |-> CapExtFilters],
       !.rxbc  = [rbsa |-> AsU16(mem + OffRxBuffers)],
       !.rxesc = [rbds |-> 0, f0ds |-> 0, f1ds |-> 0],
       !.rxf0c = [fsa |-> AsU16(mem + OffRxFifo0), fs |-> CapRxFifo0,
                  fwm |-> 0, fom |-> FALSE],
       !.rxf1c = [fsa |-> AsU16(mem + OffRxFifo1), fs |-> CapRxFifo1,
                  fwm |-> 0, fom |-> FALSE],
       !.txbc  = [tfqs |-> CapTxBuffers - CapDedicatedTx,
                  ndtb |-> CapDedicatedTx,
                  tbsa |-> AsU16(mem + OffTxBuffers), tfqm |-> FALSE],
       !.txesc = [tbds |-> 0],
       !.txefc = [efsa |-> AsU16(mem + OffTxEvent), efs |-> CapTxEventFifo,
                  efwm |-> 0]]

RamConfigWrites ==
    <<"sidfc", "xidfc", "rxbc", "rxesc", "rxf0c", "rxf1c", "txbc", "txesc",
      "txefc">>

\* ---- CanConfigurable::new ----------------------------------------------------
\* reg.configuration_mode() is the first statement of the constructor
NewBegin ==
    /\ phase = "None"
    /\ busPc = Idle
    /\ ConfigurationModeBegin("new")
    /\ UNCHANGED <<phase, config, filters, memStart, busRes>>
    /\ UNCHANGED BusOthers

\* configuration_mode has returned: the addressability check, then
\* memory.init(), apply_ram_config and the construction of the components
\* (InterruptConfiguration::new writes ILS)
NewFinish ==
    /\ busPc = [op |-> "new", at |-> "wait_cce"]
    /\ CcePollDone
    /\ busPc' = Idle
    /\ IF ~is_addressable(memStart)
       THEN /\ phase' = "Dropped"
            /\ busRes' = [op |-> "new", res |-> "MemoryNotAddressableError"]
            /\ UNCHANGED <<reg, wlog, filters, config>>
       ELSE /\ phase' = "Configurable"
            /\ filters' = SharedMemoryInit(filters)
            /\ reg' = apply_ram_config(reg, memStart)
            /\ wlog' = wlog \o RamConfigWrites \o <<"ils">>
            /\ config' = CanConfigNew(500000)
            /\ busRes' = [op |-> "new", res |-> "Ok"]
    /\ UNCHANGED <<init, initReq, cce, cceReq, memStart>>
    /\ UNCHANGED BusOthers

\* ---- CanConfigurable::config: the application edits the configuration -----
ConfigEdits ==
    {[config EXCEPT !.ts_prescaler = v] : v \in TsPrescalers}
    \cup {[config EXCEPT !.nominal_timing = v] : v \in NominalTimings}
    \cup {[config EXCEPT !.mode = "Fd", !.brs = TRUE,
                         !.data_phase_timing = v] : v \in DataTimings}
    \cup {[config EXCEPT !.mode = "Classic"]}

SetConfig ==
    /\ phase = "Configurable"
    /\ busPc = Idle
    /\ \E c \in ConfigEdits : config' = c
    /\ config' # config
    /\ UNCHANGED <<phase, busPc, init, initReq, cce, cceReq, reg, wlog,
                   filters, memStart, busRes>>
    /\ UNCHANGED BusOthers

\* ---- Filters::set / Filters::push (filter.rs) -------------------------------
\* From<Filter> for FilterStandardId, as the fields of the filter element
\* (SFT bits 31:30, SFEC bits 29:27, SFID1 bits 26:16, SFID2 bits 10:0)
EncodeStd(f) ==
    IF f.kind = "Disabled"
    THEN [sft |-> 0, sfec |-> 0, sfid1 |-> 0, sfid2 |-> 0]
    ELSE IF f.kind = "Range"
    THEN [sft |-> 0, sfec |-> f.action, sfid1 |-> f.a, sfid2 |-> f.b]
    ELSE IF f.kind = "Dual"
    THEN [sft |-> 1, sfec |-> f.action, sfid1 |-> f.a, sfid2 |-> f.b]
    ELSE [sft |-> 2, sfec |-> f.action, sfid1 |-> f.a, sfid2 |-> f.b]

\* From<ExtFilter> for FilterExtendedId, as the fields of the two words
\* (EFEC bits 31:29, EFID1 bits 28:0; EFT bits 31:30, EFID2 bits 28:0)
EncodeExt(f) ==
    IF f.kind = "Disabled"
    THEN [efec |-> 0, efid1 |-> 0, eft |-> 0, efid2 |-> 0]
    ELSE IF f.kind = "MaskedRange"
    THEN [efec |-> f.action, efid1 |-> f.a, eft |-> 0, efid2 |-> f.b]
    ELSE IF f.kind = "Dual"
    THEN [efec |-> f.action, efid1 |-> f.a, eft |-> 1, efid2 |-> f.b]
    ELSE IF f.kind = "Classic"
    THEN [efec |-> f.action, efid1 |-> f.a, eft |-> 2, efid2 |-> f.b]
    ELSE [efec |-> f.action, efid1 |-> f.a, eft |-> 3, efid2 |-> f.b]

\* From<Action> for u32
StoreFifo0 == 1
StoreFifo1 == 2
Reject == 3

\* the filters the application pushes
StdFilterInputs ==
    {[kind |-> "Classic", action |-> StoreFifo0, a |-> 2047, b |-> 0],
     [kind |-> "Range", action |-> Reject, a |-> 16, b |-> 32]}
ExtFilterInputs ==
    {[kind |-> "Classic", action |-> StoreFifo1, a |-> 536870911, b |-> 0]}

Encode(table, f) == IF table = "std" THEN EncodeStd(f) ELSE EncodeExt(f)

\* Filters::push on a table t = [memory, len]: set(len, filter), len += 1
push_front(t, word) ==
    IF t.len \in DOMAIN t.memory
    THEN [t EXCEPT !.memory[0] = word, !.len = t.len + 1]
    ELSE t
push(t, word) ==
    IF t.len \in DOMAIN t.memory
    THEN [t EXCEPT !.memory[t.len] = word, !.len = t.len + 1]
    ELSE t

\* CanConfigurable::filters_standard / filters_extended: the filter tables
\* are reachable through the configurable handle only (Aux keeps them private)
FiltersReachableAlways == phase \in {"Configurable", "Operational"}
FiltersReachable == phase = "Configurable"

FiltersPush(table, f) ==
    /\ FiltersReachable
    /\ busPc = Idle
    /\ filters' = [filters EXCEPT ![table] = push(@, Encode(table, f))]
    /\ busRes' = IF filters[table].len \in DOMAIN filters[table].memory
                 THEN [op |-> "push", res |-> "Ok", index |-> filters[table].len,
                       table |-> table, filter |-> f]
                 ELSE [op |-> "push", res |-> "Full", index |-> 0,
                       table |-> table, filter |-> f]
    /\ UNCHANGED <<phase, busPc, init, initReq, cce, cceReq, reg, wlog,
                   config, memStart>>
    /\ UNCHANGED BusOthers

FiltersPushStd == \E f \in StdFilterInputs : FiltersPush("std", f)
FiltersPushExt == \E f \in ExtFilterInputs : FiltersPush("ext", f)

\* ---- CanConfigurable::apply_configuration -----------------------------------
Min(a, b) == IF a < b THEN a ELSE b

\* the registers after the writes that follow the validation of the data
\* phase timing (GFC, test mode, RX FIFOs, TX buffers, TX event FIFO)
\* FWM_W::bits (reg/rxfc.rs): the field keeps the low seven bits of the value
FwmBits(value) == value % 128

\* the same writes without the sanitising of the watermarks
apply_tail_raw(r, c) ==
    [r EXCEPT
       !.gfc = [anfs |-> REJECT, anfe |-> REJECT],
       !.cccr.test = c.loopback,
       !.test.lbck = c.loopback,
       !.rxf0c.fom = c.rx_fifo_0.overwrite,
       !.rxf0c.fwm = FwmBits(c.rx_fifo_0.watermark),
       !.rxf1c.fom = c.rx_fifo_1.overwrite,
       !.rxf1c.fwm = FwmBits(c.rx_fifo_1.watermark),
       !.txbc.tfqm = c.tx.priority,
       !.txefc.efwm = c.tx.tx_event_fifo_watermark]
\* the writer of EFWM is not among the register sources: efwm is the value
\* handed to it
apply_tail(r, c) ==
    [r EXCEPT
       !.gfc = [anfs |-> REJECT, anfe |-> REJECT],
       !.cccr.test = c.loopback,
       !.test.lbck = c.loopback,
       !.rxf0c.fom = c.rx_fifo_0.overwrite,
       !.rxf0c.fwm = FwmBits(Min(c.rx_fifo_0.watermark, 64)),
       !.rxf1c.fom = c.rx_fifo_1.overwrite,
       !.rxf1c.fwm = FwmBits(Min(c.rx_fifo_1.watermark, 64)),
       !.txbc.tfqm = c.tx.priority,
       !.txefc.efwm = Min(c.tx.tx_event_fifo_watermark, 32)]

TailWrites == <<"gfc", "cccr.test", "test", "rxf0c", "rxf1c", "txbc", "txefc">>

\* the registers after the writes of NBTP and TSCC
apply_nominal(r, c, nominal_prescaler) ==
    [r EXCEPT
       !.nbtp = [nsjw |-> c.nominal_timing.sjw - 1,
                 ntseg1 |-> c.nominal_timing.phase_seg_1 - 1,
                 ntseg2 |-> c.nominal_timing.phase_seg_2 - 1,
                 nbrp |-> nominal_prescaler - 1],
       !.tscc = [tss |-> c.ts_select, tcp |-> c.ts_prescaler - 1]]

apply_data(r, c, data_prescaler) ==
    [r EXCEPT
       !.dbtp = [dsjw |-> c.data_phase_timing.sjw - 1,
                 dtseg1 |-> c.data_phase_timing.phase_seg_1 - 1,
                 dtseg2 |-> c.data_phase_timing.phase_seg_2 - 1,
                 dbrp |-> data_prescaler - 1]]

\* the check of the timestamp prescaler
TimestampPrescalerValidAlways(p) == TRUE
TimestampPrescalerValid(p) == p \in 1..16

\* apply_configuration: the result, the registers it leaves and the writes it
\* made, in program order
apply_configuration(r, c) ==
    IF ~TimestampPrescalerValid(c.ts_prescaler)
    THEN [res |-> "InvalidTimeStampPrescaler", reg |-> r, writes |-> <<>>]
    ELSE
    LET nominal == prescaler(c.nominal_timing, CanClock,
                             NOMINAL_BIT_TIMING_RANGES) IN
    IF ~nominal.ok
    THEN [res |-> nominal.err, reg |-> r, writes |-> <<>>]
    ELSE
    LET r1 == apply_nominal(r, c, nominal.val) IN
    IF c.mode = "Classic"
    THEN [res |-> "Ok",
          reg |-> apply_tail([r1 EXCEPT !.cccr.fdoe = FALSE], c),
          writes |-> <<"nbtp", "tscc", "cccr.fdoe">> \o TailWrites]
    ELSE
    LET r2 == [r1 EXCEPT !.cccr.fdoe = TRUE, !.cccr.brse = c.brs]
        data == prescaler(c.data_phase_timing, CanClock,
                          DATA_BIT_TIMING_RANGES)
    IN  IF ~data.ok
        THEN [res |-> data.err, reg |-> r2,
              writes |-> <<"nbtp", "tscc", "cccr.fdoe">>]
        ELSE [res |-> "Ok",
              reg |-> apply_tail(apply_data(r2, c, data.val), c),
              writes |-> <<"nbtp", "tscc", "cccr.fdoe", "dbtp">>
                         \o TailWrites]

\* ---- CanConfigurable::finalize ----------------------------------------------
\* `self.apply_configuration()?`: finalize goes on only after Ok
TryIgnored(res) == TRUE
Try(res) == res = "Ok"

\* apply_configuration()?, then reg.operational_mode(): cccr.modify(init = 0)
FinalizeApply ==
    /\ phase = "Configurable"
    /\ busPc = Idle
    /\ LET a == apply_configuration(reg, config) IN
       /\ reg' = a.reg
       /\ IF Try(a.res)
          THEN /\ wlog' = a.writes \o <<"cccr.init">>
               /\ initReq' = FALSE
               /\ busPc' = [op |-> "finalize", at |-> "wait_oper"]
               /\ UNCHANGED <<phase, busRes>>
          ELSE /\ wlog' = a.writes
               /\ phase' = "Dropped"
               /\ busRes' = [op |-> "finalize", res |-> a.res]
               /\ UNCHANGED <<initReq, busPc>>
    /\ UNCHANGED <<init, cce, cceReq, config, filters, memStart>>
    /\ UNCHANGED BusOthers

\* the poll of operational_mode has read INIT = 0: finalize returns the Can
FinalizeReturn ==
    /\ busPc = [op |-> "finalize", at |-> "wait_oper"]
    /\ OperationalPollDone
    /\ busPc' = Idle
    /\ phase' = "Operational"
    /\ busRes' = [op |-> "finalize", res |-> "Ok"]
    /\ UNCHANGED <<init, initReq, cce, cceReq, reg, wlog, config, filters,
                   memStart>>
    /\ UNCHANGED BusOthers

\* ---- Can::configure ---------------------------------------------------------
\* aux.configuration_mode(), then the Can is wrapped into a CanConfigurable
ConfigureBegin ==
    /\ phase = "Operational"
    /\ busPc = Idle
    /\ ConfigurationModeBegin("configure")
    /\ UNCHANGED <<phase, config, filters, memStart, busRes>>
    /\ UNCHANGED BusOthers

ConfigureReturn ==
    /\ busPc = [op |-> "configure", at |-> "wait_cce"]
    /\ CcePollDone
    /\ busPc' = Idle
    /\ phase' = "Configurable"
    /\ busRes' = [op |-> "configure", res |-> "Ok"]
    /\ UNCHANGED <<init, initReq, cce, cceReq, reg, wlog, config, filters,
                   memStart>>
    /\ UNCHANGED BusOthers

\* ---- DynAux::operational_mode for Aux ----------------------------------------
AuxOperationalModeBegin ==
    /\ phase = "Operational"
    /\ busPc = Idle
    /\ initReq' = FALSE
    /\ wlog' = <<"cccr.init">>
    /\ busPc' = [op |-> "operational_mode", at |-> "wait_oper"]
    /\ UNCHANGED <<phase, init, cce, cceReq, reg, config, filters, memStart,
                   busRes>>
    /\ UNCHANGED BusOthers

AuxOperationalModeReturn ==
    /\ busPc = [op |-> "operational_mode", at |-> "wait_oper"]
    /\ OperationalPollDone
    /\ busPc' = Idle
    /\ busRes' = [op |-> "operational_mode", res |-> "Ok"]
    /\ UNCHANGED <<phase, init, initReq, cce, cceReq, reg, wlog, config,
                   filters, memStart>>
    /\ UNCHANGED BusOthers

BusNext ==
    \/ NewBegin
    \/ ConfigurationModeCce
    \/ NewFinish
    \/ SetConfig
    \/ FiltersPushStd
    \/ FiltersPushExt
    \/ FinalizeApply
    \/ FinalizeReturn
    \/ ConfigureBegin
    \/ ConfigureReturn
    \/ AuxOperationalModeBegin
    \/ AuxOperationalModeReturn
    \/ HwAckInit
    \/ HwAckCce
    \/ HwBusOff

\* the bus controller held still, for the specifications of other components
BusQuiet == BusInit /\ memStart = SYSTEM_RAM + 256 /\ filters = EmptyFilters
\* the registry held still
IrqQuiet == IrqInit /\ ie = {}

(***************************************************************************)
(* Transmit buffers  (src/mcan/src/tx_buffers.rs)                          *)
(***************************************************************************)
\* the TX buffers: the dedicated ones first, the queue behind them
TxBuffers == 0..(CapTxBuffers - 1)
DedicatedBufs == 0..(CapDedicatedTx - 1)
QueueBufs == CapDedicatedTx..(CapTxBuffers - 1)

\* the messages the application sends; a zeroed element before the first
TxMsgs == {"m1", "m2"}
ZeroMsg == "zero"

\* the indices the application passes to transmit_dedicated
TxIndices == 0..CapTxBuffers

TxIdle == [op |-> "idle", index |-> 0, msg |-> ZeroMsg]
RunOff == [on |-> FALSE, res |-> <<>>]
CancelIdle == [on |-> FALSE, set |-> {}]

TxInit ==
    /\ txmem = [i \in TxBuffers |-> ZeroMsg]
    /\ txbar = {}
    /\ txbrp = {}
    /\ txbto = {}
    /\ tfqpi = CapDedicatedTx
    /\ txPc = TxIdle
    /\ txRes = [op |-> "none", index |-> 0, target |-> -1, res |-> "none"]
    /\ txTick = FALSE
    /\ txRun = [on |-> TRUE, res |-> <<>>]
    /\ txbcr = {}
    /\ txbcf = {}
    /\ cancelPc = CancelIdle
    /\ cancelRes = [set |-> {}, res |-> "none", tick |-> FALSE]

\* ---- the peripheral ----------------------------------------------------------
\* TXFQS.TFQF: no element of the TX FIFO/queue is free
TFQF == \A i \in QueueBufs : i \in txbrp

\* the queue buffers in cyclic order, starting at the put pointer
CyclicFrom(start) ==
    [k \in 1..Cardinality(QueueBufs) |->
        CapDedicatedTx + ((start - CapDedicatedTx + k - 1)
                          % Cardinality(QueueBufs))]

\* TXFQS.TFQPI: the next free element of the TX FIFO/queue
TFQPI ==
    IF TFQF THEN tfqpi
    ELSE LET order == CyclicFrom(tfqpi)
             k == CHOOSE k \in DOMAIN order :
                     /\ order[k] \notin txbrp
                     /\ \A j \in 1..(k - 1) : order[j] \in txbrp
         IN order[k]

\* a write of `bits` to TXBAR: bits are set only for configured buffers, the
\* requests become pending, their old completion and cancellation flags are
\* cleared (doc of get_cancellation_flags / get_transmission_completed_flags), and a
\* request for the element at the put index advances the put pointer
HwAddRequest(bits) ==
    LET accepted == bits \cap TxBuffers IN
    /\ txbar' = txbar \cup accepted
    /\ txbrp' = txbrp \cup accepted
    /\ txbto' = txbto \ accepted
    /\ txbcf' = txbcf \ accepted
    /\ tfqpi' = IF ~TFQF /\ TFQPI \in accepted
                THEN CyclicFrom(TFQPI)[IF Cardinality(QueueBufs) > 1
                                       THEN 2 ELSE 1]
                ELSE tfqpi

\* the TX scan has taken over an add request: its TXBAR bit is reset
HwScanDone ==
    /\ \E i \in txbar : txbar' = txbar \ {i}
    /\ txRun' = txRun
    /\ UNCHANGED <<txmem, txbrp, txbto, tfqpi, txPc, txRes, txTick>>
    /\ UNCHANGED <<txbcr, txbcf, cancelPc, cancelRes>>
    /\ UNCHANGED TxOthers

\* a pending buffer has been sent; if its cancellation was requested, the
\* cancellation is finished too (doc of cancel_multi: a canceled buffer
\* "may still finish successfully")
HwTransmitted ==
    /\ \E i \in txbrp \ txbar :
          /\ txbrp' = txbrp \ {i}
          /\ txbto' = txbto \cup {i}
          /\ txbcr' = txbcr \ {i}
          /\ txbcf' = IF i \in txbcr THEN txbcf \cup {i} ELSE txbcf
    /\ txRun' = RunOff
    /\ UNCHANGED <<txmem, txbar, tfqpi, txPc, txRes, txTick>>
    /\ UNCHANGED <<cancelPc, cancelRes>>
    /\ UNCHANGED TxOthers

\* a write of `bits` to TXBCR: a pending buffer gets a cancellation request,
\* a buffer with nothing pending is reported as finished at once
HwCancelRequest(bits) ==
    LET accepted == bits \cap TxBuffers IN
    /\ txbcr' = txbcr \cup (accepted \cap txbrp)
    /\ txbcf' = txbcf \cup (accepted \ txbrp)

\* the peripheral has canceled the pending request of buffer i
HwCancelFinished(i) ==
    /\ i \in txbcr
    /\ txbcr' = txbcr \ {i}
    /\ txbcf' = txbcf \cup {i}
    /\ txbrp' = txbrp \ {i}
    /\ txbar' = txbar \ {i}
    /\ txRun' = RunOff
    /\ UNCHANGED <<txmem, txbto, tfqpi, txPc, txRes, txTick>>
    /\ UNCHANGED <<cancelPc, cancelRes>>
    /\ UNCHANGED TxOthers

HwCanceled == \E i \in TxBuffers : HwCancelFinished(i)

\* ---- the driver ---------------------------------------------------------------
\* Tx::add_request: the value written to TXBAR, `1 << index`
add_request(index) == {index}

\* Tx::is_buffer_in_use
is_buffer_in_use_never(index) == FALSE
is_buffer_in_use(index) ==
    LET add_requests == txbar
        pending == txbrp
    IN  (add_requests \cup pending) \cap {index} # {}

\* Tx::find_put_index: None if the queue is full
find_put_index_first == [some |-> ~TFQF, index |-> CapDedicatedTx]
find_put_index == [some |-> ~TFQF, index |-> TFQPI]

\* the bounds check of transmit_dedicated: `index > DedicatedTxBuffers`
DedicatedOutOfBounds(index) == index > CapDedicatedTx

RunAppend(r) ==
    IF ~txRun.on \/ Len(txRun.res) > Cardinality(QueueBufs) THEN RunOff
    ELSE [txRun EXCEPT !.res = Append(@, r)]

\* Tx::transmit up to the write of the element; `op` is the calling method
transmit(op, index, message) ==
    IF is_buffer_in_use(index)
    THEN /\ txRes' = [op |-> op, index |-> index, target |-> index,
                      res |-> "WouldBlock"]
         /\ txTick' = ~txTick
         /\ txRun' = IF op = "queued" THEN RunAppend("WouldBlock") ELSE RunOff
         /\ UNCHANGED <<txmem, txPc>>
    ELSE IF index \notin DOMAIN txmem
    THEN /\ txRes' = [op |-> op, index |-> index, target |-> index,
                      res |-> "OutOfBounds"]
         /\ txTick' = ~txTick
         /\ txRun' = IF op = "queued" THEN RunAppend("OutOfBounds") ELSE RunOff
         /\ UNCHANGED <<txmem, txPc>>
    ELSE /\ txmem' = [txmem EXCEPT ![index] = message]
         /\ txPc' = [op |-> op, index |-> index, msg |-> message]
         /\ UNCHANGED <<txRes, txTick, txRun>>

\* DynTx::transmit_dedicated for Tx
TransmitDedicated(index, message) ==
    /\ txPc = TxIdle
    /\ cancelPc = CancelIdle
    /\ IF DedicatedOutOfBounds(index)
       THEN /\ txRes' = [op |-> "dedicated", index |-> index, target |-> -1,
                         res |-> "OutOfBounds"]
            /\ txTick' = ~txTick
            /\ txRun' = RunOff
            /\ UNCHANGED <<txmem, txPc>>
       ELSE transmit("dedicated", index, message)
    /\ UNCHANGED <<txbar, txbrp, txbto, tfqpi>>
    /\ UNCHANGED <<txbcr, txbcf, cancelPc, cancelRes>>
    /\ UNCHANGED TxOthers

\* DynTx::transmit_queued for Tx
TransmitQueued(message) ==
    /\ txPc = TxIdle
    /\ cancelPc = CancelIdle
    /\ LET put == find_put_index IN
       IF ~put.some
       THEN /\ txRes' = [op |-> "queued", index |-> 0, target |-> -1,
                         res |-> "WouldBlock"]
            /\ txTick' = ~txTick
            /\ txRun' = RunAppend("WouldBlock")
            /\ UNCHANGED <<txmem, txPc>>
       ELSE transmit("queued", put.index, message)
    /\ UNCHANGED <<txbar, txbrp, txbto, tfqpi>>
    /\ UNCHANGED <<txbcr, txbcf, cancelPc, cancelRes>>
    /\ UNCHANGED TxOthers

\* the end of Tx::transmit: add_request(index), then Ok(())
TransmitAddRequest ==
    /\ txPc # TxIdle
    /\ HwAddRequest(add_request(txPc.index))
    /\ txRes' = [op |-> txPc.op, index |-> txPc.index, target |-> txPc.index,
                 res |-> "Ok"]
    /\ txTick' = ~txTick
    /\ txRun' = IF txPc.op = "queued" THEN RunAppend("Ok") ELSE RunOff
    /\ txPc' = TxIdle
    /\ UNCHANGED <<txmem, txbcr, cancelPc, cancelRes>>
    /\ UNCHANGED TxOthers

\* TxBufferSet as FromIterator<usize>: the bits `1u32 << i` of the indices.
\* A shift by 32 or more is an overflow: with overflow checks the program
\* panics, without them the shift amount is taken modulo 32
FromIterPanics(indices) == overflow_checks /\ \E i \in indices : i >= 32
TxBufferSetFrom(indices) == {i % 32 : i \in indices}

\* the sets the application passes to cancel_multi
CancelSets == SUBSET TxBuffers

\* Tx::poll_canceled: Ok (TRUE) iff every requested flag of TXBCF is set
poll_canceled_any(to_be_canceled) == to_be_canceled \cap txbcf # {}
poll_canceled(to_be_canceled) ==
    LET already_canceled == txbcf IN
    already_canceled \cap to_be_canceled = to_be_canceled

\* DynTx::cancel_multi for Tx: the first poll and, if it fails, the write of
\* the set to TXBCR
CancelMulti(to_be_canceled) ==
    /\ txPc = TxIdle
    /\ cancelPc = CancelIdle
    /\ IF poll_canceled(to_be_canceled)
       THEN /\ cancelRes' = [set |-> to_be_canceled, res |-> "Ok",
                             tick |-> ~cancelRes.tick]
            /\ UNCHANGED <<txbcr, txbcf, cancelPc>>
       ELSE /\ HwCancelRequest(to_be_canceled)
            /\ cancelPc' = [on |-> TRUE, set |-> to_be_canceled]
            /\ UNCHANGED cancelRes
    /\ txRun' = RunOff
    /\ UNCHANGED <<txmem, txbar, txbrp, txbto, tfqpi, txPc, txRes, txTick>>
    /\ UNCHANGED TxOthers

\* DynTx::cancel_multi for Tx: the second poll, whose result is returned
CancelPoll ==
    /\ cancelPc.on
    /\ cancelRes' = [set |-> cancelPc.set,
                     res |-> IF poll_canceled(cancelPc.set)
                             THEN "Ok" ELSE "WouldBlock",
                     tick |-> ~cancelRes.tick]
    /\ cancelPc' = CancelIdle
    /\ UNCHANGED <<txmem, txbar, txbrp, txbto, tfqpi, txPc, txRes, txTick,
                   txRun, txbcr, txbcf>>
    /\ UNCHANGED TxOthers

\* the program has panicked in a cancel
CancelPanicked == cancelRes.res = "panic"

\* DynTx::cancel for Tx
Cancel(index) ==
    IF FromIterPanics({index})
    THEN /\ txPc = TxIdle
         /\ cancelPc = CancelIdle
         /\ cancelRes' = [set |-> {}, res |-> "panic",
                          tick |-> ~cancelRes.tick]
         /\ txRun' = RunOff
         /\ UNCHANGED <<txmem, txbar, txbrp, txbto, tfqpi, txPc, txRes,
                        txTick, txbcr, txbcf, cancelPc>>
         /\ UNCHANGED TxOthers
    ELSE CancelMulti(TxBufferSetFrom({index}))

TxTransmitDedicated ==
    \E i \in TxIndices, m \in TxMsgs : TransmitDedicated(i, m)
TxTransmitQueued == \E m \in TxMsgs : TransmitQueued(m)

TxNext ==
    \/ TxTransmitDedicated
    \/ TxTransmitQueued
    \/ TransmitAddRequest
    \/ HwScanDone
    \/ HwTransmitted

\* ---- an application that polls a cancellation until it is finished -------
\* the last cancel_multi returned WouldBlock: the application calls it again
\* with the same set (nb: "try again later") before it does anything else
CancelOutstanding == cancelRes.res = "WouldBlock"

PollingTransmitQueued ==
    /\ ~CancelOutstanding
    /\ TransmitQueued("m1")

PollingCancelMulti ==
    \E s \in CancelSets :
        /\ CancelOutstanding => s = cancelRes.set
        /\ CancelMulti(s)

PollingCancel ==
    \E i \in TxBuffers :
        /\ CancelOutstanding => TxBufferSetFrom({i}) = cancelRes.set
        /\ Cancel(i)

CancelNext ==
    \/ PollingTransmitQueued
    \/ TransmitAddRequest
    \/ PollingCancelMulti
    \/ PollingCancel
    \/ CancelPoll
    \/ HwScanDone
    \/ HwTransmitted
    \/ HwCanceled

\* ---- an application that cancels by index, with any usize -----------------
\* the indices passed to cancel: the TX buffers, the last bit of the set, and
\* indices of 32 and more, which name no TX buffer
WideIndices == TxBuffers \cup {31, 32, 33, 34, 64}

WideTransmitQueued ==
    /\ ~CancelPanicked
    /\ TransmitQueued("m1")

WideCancel ==
    \E index \in WideIndices :
        /\ ~CancelPanicked
        /\ Cancel(index)

WideCancelPoll ==
    /\ ~CancelPanicked
    /\ CancelPoll

CancelWideNext ==
    \/ WideTransmitQueued
    \/ TransmitAddRequest
    \/ WideCancel
    \/ WideCancelPoll
    \/ HwScanDone
    \/ HwTransmitted
    \/ HwCanceled

\* the transmit buffers held still
TxQuiet == TxInit

(***************************************************************************)
(* Receive FIFO and transmit event FIFO                                    *)
(* (src/mcan/src/rx_fifo.rs, src/mcan/src/tx_event_fifo.rs)                *)
(***************************************************************************)
\* how many messages / events the peripheral stores in one behaviour; they
\* are numbered 1, 2, ... in the order of their arrival, 0 is a zeroed slot
MaxRxStored == 3
MaxTxEvents == 2

RxModes == {"Blocking", "Overwrite"}

\* ---- the peripheral: a FIFO in Message RAM ---------------------------------
FifoReset(cap) ==
    [mem |-> [i \in 0..(cap - 1) |-> 0], put |-> 0, get |-> 0, fill |-> 0]

\* the peripheral stores element m: behind the last one while there is room;
\* over the oldest one when full in overwrite mode; not at all (message
\* lost) when full in blocking mode
FifoStore(f, m, cap, mode) ==
    IF f.fill < cap
    THEN [f EXCEPT !.mem[f.put] = m, !.put = (f.put + 1) % cap,
                   !.fill = f.fill + 1]
    ELSE IF mode = "Overwrite"
    THEN [f EXCEPT !.mem[f.put] = m, !.put = (f.put + 1) % cap,
                   !.get = (f.get + 1) % cap]
    ELSE f

\* a write of index a to the acknowledge register: the get index becomes
\* a + 1 and the fill level drops by the elements released
FifoAck(f, a, cap) ==
    IF a \notin 0..(cap - 1) THEN f
    ELSE LET released == ((a - f.get + cap) % cap) + 1 IN
         [f EXCEPT !.get = (a + 1) % cap,
                   !.fill = IF released > f.fill THEN 0 ELSE f.fill - released]

\* ---- RxFifo ------------------------------------------------------------------
RxIdle == [pos |-> 0, op |-> "none", get |-> 0, msg |-> 0]

RxInit ==
    /\ rxMode \in RxModes
    /\ rxf = FifoReset(CapRxFifo0)
    /\ rxPc = RxIdle
    /\ rxRes = [op |-> "none", res |-> "none", msg |-> 0, ack |-> -1,
                tick |-> FALSE]
    /\ rxIn = 0
    /\ rxOut = <<>>

TxeIdle == [pos |-> 0, get |-> 0, msg |-> 0]

TxeInit ==
    /\ txef = FifoReset(CapTxEventFifo)
    /\ txePc = TxeIdle
    /\ txeRes = [res |-> "none", msg |-> 0, ack |-> -1, tick |-> FALSE]
    /\ txeIn = 0

FifoInit == RxInit /\ TxeInit

\* a message passes the filters and is stored in the RX FIFO
HwRxStore ==
    /\ rxIn < MaxRxStored
    /\ rxf.fill < CapRxFifo0 \/ rxMode = "Overwrite"
    /\ rxf' = FifoStore(rxf, rxIn + 1, CapRxFifo0, rxMode)
    /\ rxIn' = rxIn + 1
    /\ UNCHANGED <<rxMode, rxPc, rxRes, rxOut, txef, txePc, txeRes, txeIn>>
    /\ UNCHANGED FifoOthers

\* `if len == 0` of receive, `effl == 0` of pop
FifoEmptyNever(len) == FALSE
FifoEmpty(len) == len = 0

\* the statements of receive after the status read, in program order: the
\* element is read, then the acknowledge register is written
ReceiveStepsAckFirst == <<"ack", "read">>
ReceiveSteps == <<"read", "ack">>

\* Result::ok of Iterator::next
ok(res) == IF res = "Ok" THEN "Some" ELSE "None"

\* DynRxFifo::receive for RxFifo (op = "receive") and Iterator::next for
\* RxFifo (op = "next"): the read of RXFnS and the check of the fill level
ReceiveBegin(op) ==
    /\ rxPc = RxIdle
    /\ LET status == [ffl |-> rxf.fill, fgi |-> rxf.get]
           len == status.ffl
       IN IF FifoEmpty(len)
          THEN /\ rxRes' = [op |-> op,
                            res |-> IF op = "next" THEN ok("WouldBlock")
                                    ELSE "WouldBlock",
                            msg |-> 0, ack |-> -1, tick |-> ~rxRes.tick]
               /\ UNCHANGED rxPc
          ELSE /\ rxPc' = [pos |-> 1, op |-> op, get |-> status.fgi,
                           msg |-> 0]
               /\ UNCHANGED rxRes
    /\ UNCHANGED <<rxMode, rxf, rxIn, rxOut, txef, txePc, txeRes, txeIn>>
    /\ UNCHANGED FifoOthers

RxReceive == ReceiveBegin("receive")
RxNext == ReceiveBegin("next")

\* the next statement of receive; Ok(message) after the last one
ReceiveStep ==
    /\ rxPc.pos > 0
    /\ LET step == ReceiveSteps[rxPc.pos]
           message == IF step = "read" THEN rxf.mem[rxPc.get] ELSE rxPc.msg
       IN /\ rxf' = IF step = "ack"
                    THEN FifoAck(rxf, rxPc.get, CapRxFifo0) ELSE rxf
          /\ IF rxPc.pos = Len(ReceiveSteps)
             THEN /\ rxRes' = [op |-> rxPc.op,
                               res |-> IF rxPc.op = "next" THEN ok("Ok")
                                       ELSE "Ok",
                               msg |-> message, ack |-> rxPc.get,
                               tick |-> ~rxRes.tick]
                  /\ rxOut' = Append(rxOut, message)
                  /\ rxPc' = RxIdle
             ELSE /\ rxPc' = [rxPc EXCEPT !.pos = @ + 1, !.msg = message]
                  /\ UNCHANGED <<rxRes, rxOut>>
    /\ UNCHANGED <<rxMode, rxIn, txef, txePc, txeRes, txeIn>>
    /\ UNCHANGED FifoOthers

\* ---- TxEventFifo -------------------------------------------------------------
\* a transmission whose message asked for it leaves an event; the TX event
\* FIFO has no overwrite mode
HwTxEventStore ==
    /\ txeIn < MaxTxEvents
    /\ txef.fill < CapTxEventFifo
    /\ txef' = FifoStore(txef, txeIn + 1, CapTxEventFifo, "Blocking")
    /\ txeIn' = txeIn + 1
    /\ UNCHANGED <<rxMode, rxf, rxPc, rxRes, rxIn, rxOut, txePc, txeRes>>
    /\ UNCHANGED FifoOthers

\* the statements of pop after the status read, in program order
PopStepsAckFirst == <<"ack", "read">>
PopSteps == <<"read", "ack">>

\* DynTxEventFifo::pop for TxEventFifo: the read of TXEFS and the check of
\* the fill level
PopBegin ==
    /\ txePc = TxeIdle
    /\ LET status == [effl |-> txef.fill, efgi |-> txef.get] IN
       IF FifoEmpty(status.effl)
       THEN /\ txeRes' = [res |-> "None", msg |-> 0, ack |-> -1,
                          tick |-> ~txeRes.tick]
            /\ UNCHANGED txePc
       ELSE /\ txePc' = [pos |-> 1, get |-> status.efgi, msg |-> 0]
            /\ UNCHANGED txeRes
    /\ UNCHANGED <<rxMode, rxf, rxPc, rxRes, rxIn, rxOut, txef, txeIn>>
    /\ UNCHANGED FifoOthers

\* the next statement of pop; `self.memory.get(get_index)?` returns None for
\* an index outside the slice; Some(event) after the last statement
PopStep ==
    /\ txePc.pos > 0
    /\ LET step == PopSteps[txePc.pos]
           inside == txePc.get \in DOMAIN txef.mem
           event == IF step = "read" /\ inside THEN txef.mem[txePc.get]
                    ELSE txePc.msg
       IN IF step = "read" /\ ~inside
          THEN /\ txeRes' = [res |-> "None", msg |-> 0, ack |-> -1,
                             tick |-> ~txeRes.tick]
               /\ txePc' = TxeIdle
               /\ UNCHANGED txef
          ELSE /\ txef' = IF step = "ack"
                          THEN FifoAck(txef, txePc.get, CapTxEventFifo)
                          ELSE txef
               /\ IF txePc.pos = Len(PopSteps)
                  THEN /\ txeRes' = [res |-> "Some", msg |-> event,
                                     ack |-> txePc.get,
                                     tick |-> ~txeRes.tick]
                       /\ txePc' = TxeIdle
                  ELSE /\ txePc' = [txePc EXCEPT !.pos = @ + 1,
                                                 !.msg = event]
                       /\ UNCHANGED txeRes
    /\ UNCHANGED <<rxMode, rxf, rxPc, rxRes, rxIn, rxOut, txeIn>>
    /\ UNCHANGED FifoOthers

FifoNext ==
    \/ RxReceive
    \/ RxNext
    \/ ReceiveStep
    \/ HwRxStore
    \/ PopBegin
    \/ PopStep
    \/ HwTxEventStore

\* the FIFOs held still
FifoQuiet == FifoInit /\ rxMode = "Blocking"

(***************************************************************************)
(* Dedicated receive buffers  (src/mcan/src/rx_dedicated_buffers.rs)       *)
(***************************************************************************)
RxBuffers == 0..(CapRxBuffers - 1)

\* the identifiers of the received messages: embedded_can::Id, a standard
\* (11 bit) or an extended (29 bit) identifier
StdId(raw) == [ext |-> FALSE, raw |-> raw]
ExtId(raw) == [ext |-> TRUE, raw |-> raw]
RxIds == {StdId(5), ExtId(3), ExtId(262144)}
ZeroId == StdId(0)

\* the order of embedded_can::Id, which min_by_key uses. The crate is not
\* part of the sources; its order is either the derived one (variant first,
\* then value) or the one of bus arbitration (the 11 most significant bits,
\* then the kind, then the 18 remaining bits)
IdOrders == {"derived", "arbitration"}
IdKey(id) ==
    IF idOrd = "derived"
    THEN <<IF id.ext THEN 1 ELSE 0, id.raw, 0>>
    ELSE <<IF id.ext THEN id.raw \div 262144 ELSE id.raw,
           IF id.ext THEN 1 ELSE 0,
           IF id.ext THEN id.raw % 262144 ELSE 0>>

KeyLess(a, b) ==
    \/ a[1] < b[1]
    \/ a[1] = b[1] /\ a[2] < b[2]
    \/ a[1] = b[1] /\ a[2] = b[2] /\ a[3] < b[3]

\* the indices the application passes to receive
RxbIndices == 0..CapRxBuffers \cup {63, 64}

NoRxbCall ==
    [op |-> "none", index |-> -1, res |-> "none", id |-> ZeroId,
     wrote |-> {}, tick |-> FALSE]

RxbInit ==
    /\ rxbmem = [i \in RxBuffers |-> ZeroId]
    /\ ndat = {}
    /\ rxbRes = NoRxbCall
    /\ idOrd \in IdOrders
    /\ rxbFed = RxBuffers
    /\ overflow_checks \in BOOLEAN

\* a filter stores a message in buffer i and the peripheral raises its flag;
\* a buffer whose flag is still set is not written again
HwRxBufferStore ==
    /\ \E i \in rxbFed \ ndat, id \in RxIds :
          /\ rxbmem' = [rxbmem EXCEPT ![i] = id]
          /\ ndat' = ndat \cup {i}
    /\ UNCHANGED <<rxbRes, rxbEnv>>
    /\ UNCHANGED RxbOthers

\* RxDedicatedBuffer::has_new_data
has_new_data(index) ==
    IF index < 32 THEN index \in ndat
    ELSE IF index < 64 THEN index \in ndat
    ELSE FALSE

\* RxDedicatedBuffer::has_new_data_checked; TRUE/FALSE for Ok(_)
has_new_data_checked(index) ==
    IF index < 64 THEN Ok(has_new_data(index)) ELSE Err("OutOfBounds")

\* RxDedicatedBuffer::mark_buffer_read: the flags cleared by the write of
\* `1 << index` to NDAT1 or NDAT2 (a shift by 32..63 takes the amount
\* modulo 32 where overflow is not checked)
mark_buffer_read(index) ==
    IF index < 32 THEN {index}
    ELSE IF index < 64 THEN {32 + (index % 32)}
    ELSE {}

\* the shift `1 << index` of mark_buffer_read on a u32: an amount of 32 or
\* more overflows, which panics where overflow is checked
ShiftPanics(index) == overflow_checks /\ index >= 32 /\ index < 64

\* a panic ends the program
RxbPanicked == rxbRes.res = "panic"

\* RxDedicatedBuffer::peek
peek(index) ==
    LET new == has_new_data_checked(index) IN
    IF ~new.ok THEN [res |-> "OutOfBounds", id |-> ZeroId]
    ELSE IF new.val
    THEN IF index \in DOMAIN rxbmem
         THEN [res |-> "Ok", id |-> rxbmem[index]]
         ELSE [res |-> "OutOfBounds", id |-> ZeroId]
    ELSE [res |-> "WouldBlock", id |-> ZeroId]

\* RxDedicatedBuffer::receive
RxbReceive(index) ==
    LET message == peek(index)
        panics == message.res = "Ok" /\ ShiftPanics(index)
        cleared == IF message.res = "Ok" /\ ~panics
                   THEN mark_buffer_read(index) ELSE {}
    IN
    /\ ~RxbPanicked
    /\ ndat' = ndat \ cleared
    /\ rxbRes' = [op |-> "receive", index |-> index,
                  res |-> IF panics THEN "panic" ELSE message.res,
                  id |-> IF panics THEN ZeroId ELSE message.id,
                  wrote |-> cleared, tick |-> ~rxbRes.tick]
    /\ UNCHANGED <<rxbmem, rxbEnv>>
    /\ UNCHANGED RxbOthers

\* Iterator::min_by_key over the buffers with new data: the first buffer
\* whose identifier no other one precedes
min_by_key_first(flagged) == CHOOSE i \in flagged : \A j \in flagged : i <= j
min_by_key(flagged) ==
    CHOOSE i \in flagged :
        \A j \in flagged :
            /\ ~KeyLess(IdKey(rxbmem[j]), IdKey(rxbmem[i]))
            /\ j < i => KeyLess(IdKey(rxbmem[i]), IdKey(rxbmem[j]))

\* RxDedicatedBuffer::receive_any
RxbReceiveAny ==
    LET flagged == {i \in DOMAIN rxbmem : has_new_data(i)} IN
    /\ ~RxbPanicked
    /\ IF flagged = {}
       THEN /\ rxbRes' = [op |-> "receive_any", index |-> -1,
                          res |-> "WouldBlock", id |-> ZeroId, wrote |-> {},
                          tick |-> ~rxbRes.tick]
            /\ UNCHANGED ndat
       ELSE LET i == min_by_key(flagged)
                cleared == IF ShiftPanics(i) THEN {} ELSE mark_buffer_read(i)
            IN
            /\ ndat' = ndat \ cleared
            /\ rxbRes' = [op |-> "receive_any", index |-> i,
                          res |-> IF ShiftPanics(i) THEN "panic" ELSE "Ok",
                          id |-> IF ShiftPanics(i) THEN ZeroId ELSE rxbmem[i],
                          wrote |-> cleared, tick |-> ~rxbRes.tick]
    /\ UNCHANGED <<rxbmem, rxbEnv>>
    /\ UNCHANGED RxbOthers

RxbReceiveIndex == \E index \in RxbIndices \cup rxbFed : RxbReceive(index)

RxbNext ==
    \/ RxbReceiveIndex
    \/ RxbReceiveAny
    \/ HwRxBufferStore

\* the dedicated buffers held still
RxbQuiet == RxbInit /\ idOrd = "arbitration" /\ ~overflow_checks

(***************************************************************************)
(* The components of Can and the registers each of them writes             *)
(* (src/mcan/src/bus.rs and the modules of the components)                 *)
(***************************************************************************)
\* a component: the fields of Can, or a handle with its mask
Comp(name) == <<name, {}>>
Handle(mask) == <<"handle", mask>>
\* what is written: a whole register or region of the Message RAM, or one
\* bit of IR
Whole(name) == <<name, -1>>
IrBit(b) == <<"IR", b>>

By(c, names) == {<<c, Whole(n)>> : n \in names}

\* the regions of SharedMemoryInner
RamRegions ==
    {"ram.filters_standard", "ram.filters_extended", "ram.rx_fifo_0",
     "ram.rx_fifo_1", "ram.rx_dedicated_buffers", "ram.tx_event_fifo",
     "ram.tx_buffers"}

\* the registers apply_ram_config writes
RamConfigRegs ==
    {"SIDFC", "XIDFC", "RXBC", "RXESC", "RXF0C", "RXF1C", "TXBC", "TXESC",
     "TXEFC"}

\* the registers apply_configuration writes
ApplyConfigRegs(fd) ==
    {"NBTP", "TSCC", "CCCR", "GFC", "TEST", "RXF0C", "RXF1C", "TXBC", "TXEFC"}
        \cup (IF fd THEN {"DBTP"} ELSE {})

\* GetRxFifoRegs for RxFifo<Fifo0> and RxFifo<Fifo1>: the acknowledge
\* register of the FIFO
GetRxFifoRegsFifo0(n) == "RXF0A"
GetRxFifoRegs(n) == IF n = 0 THEN "RXF0A" ELSE "RXF1A"

OwnInit ==
    /\ ownSt = [phase |-> "None", disabled |-> {}, handles |-> {}]
    /\ wr = {}

\* CanConfigurable::new: configuration_mode, SharedMemory::init,
\* apply_ram_config by the controller; InterruptConfiguration::new writes ILS
OwnNew ==
    /\ ownSt.phase = "None"
    /\ ownSt' = [phase |-> "Configurable", disabled |-> ReqBits,
                 handles |-> {}]
    /\ wr' = By(Comp("controller"),
                {"CCCR"} \cup RamConfigRegs \cup RamRegions)
                \cup By(Comp("interrupts"), {"ILS"})
    /\ UNCHANGED OwnOthers

\* Filters::push through the configurable handle
OwnPush ==
    /\ ownSt.phase = "Configurable"
    /\ \E r \in {"ram.filters_standard", "ram.filters_extended"} :
          wr' = By(Comp("controller"), {r})
    /\ UNCHANGED ownSt
    /\ UNCHANGED OwnOthers

\* CanConfigurable::finalize: apply_configuration, operational_mode
OwnFinalize ==
    /\ ownSt.phase = "Configurable"
    /\ \E fd \in BOOLEAN : wr' = By(Comp("controller"), ApplyConfigRegs(fd))
    /\ ownSt' = [ownSt EXCEPT !.phase = "Operational"]
    /\ UNCHANGED OwnOthers

\* Can::configure: configuration_mode
OwnConfigure ==
    /\ ownSt.phase = "Operational"
    /\ wr' = By(Comp("controller"), {"CCCR"})
    /\ ownSt' = [ownSt EXCEPT !.phase = "Configurable"]
    /\ UNCHANGED OwnOthers

\* DynAux::operational_mode
OwnOperationalMode ==
    /\ ownSt.phase = "Operational"
    /\ wr' = By(Comp("controller"), {"CCCR"})
    /\ UNCHANGED ownSt
    /\ UNCHANGED OwnOthers

\* InterruptConfiguration::enable: split, set_line, set_enabled
OwnEnable ==
    /\ ownSt.phase \in {"Configurable", "Operational"}
    /\ \E S \in Requests \ {{}} :
          /\ split_missing(ownSt.disabled, S) = {}
          /\ ownSt' = [ownSt EXCEPT
                          !.disabled = split_remaining(@, S),
                          !.handles = @ \cup {S}]
    /\ wr' = By(Comp("interrupts"), {"ILE", "ILS", "IE"})
    /\ UNCHANGED OwnOthers

\* InterruptConfiguration::disable: set_enabled, join
OwnDisable ==
    /\ ownSt.phase \in {"Configurable", "Operational"}
    /\ \E h \in ownSt.handles :
          ownSt' = [ownSt EXCEPT !.disabled = join(@, h),
                                 !.handles = @ \ {h}]
    /\ wr' = By(Comp("interrupts"), {"IE"})
    /\ UNCHANGED OwnOthers

\* OwnedInterruptSet::clear_interrupts of a handle, wherever it was moved to
OwnClearInterrupts ==
    /\ \E h \in ownSt.handles, arg \in ClearArgs :
          wr' = {<<Handle(h), IrBit(b)>> : b \in clear_interrupts(h, arg)}
    /\ UNCHANGED ownSt
    /\ UNCHANGED OwnOthers

\* RxFifo::receive of FIFO n
OwnRxFifoReceive ==
    /\ ownSt.phase = "Operational"
    /\ \E n \in {0, 1} :
          wr' = By(Comp(IF n = 0 THEN "rx_fifo_0" ELSE "rx_fifo_1"),
                   {GetRxFifoRegs(n)})
    /\ UNCHANGED ownSt
    /\ UNCHANGED OwnOthers

\* RxDedicatedBuffer::receive: mark_buffer_read
OwnRxbReceive ==
    /\ ownSt.phase = "Operational"
    /\ \E index \in {0, 32} :
          wr' = By(Comp("rx_dedicated_buffers"),
                   {IF index < 32 THEN "NDAT1" ELSE "NDAT2"})
    /\ UNCHANGED ownSt
    /\ UNCHANGED OwnOthers

\* Tx::transmit (the buffer, then add_request), cancel_multi, and the
\* enable/disable of the interrupts per buffer
OwnTx ==
    /\ ownSt.phase = "Operational"
    /\ \E regs \in {{"ram.tx_buffers", "TXBAR"}, {"TXBCR"}, {"TXBCIE"},
                     {"TXBTIE"}} :
          wr' = By(Comp("tx"), regs)
    /\ UNCHANGED ownSt
    /\ UNCHANGED OwnOthers

\* TxEventFifo::pop
OwnPop ==
    /\ ownSt.phase = "Operational"
    /\ wr' = By(Comp("tx_event_fifo"), {"TXEFA"})
    /\ UNCHANGED ownSt
    /\ UNCHANGED OwnOthers

OwnNext ==
    \/ OwnNew
    \/ OwnPush
    \/ OwnFinalize
    \/ OwnConfigure
    \/ OwnOperationalMode
    \/ OwnEnable
    \/ OwnDisable
    \/ OwnClearInterrupts
    \/ OwnRxFifoReceive
    \/ OwnRxbReceive
    \/ OwnTx
    \/ OwnPop

OwnQuiet == OwnInit

(***************************************************************************)
(* Capacities  (src/mcan/src/messageram.rs)                                *)
(***************************************************************************)
\* the upper bounds in the associated types of `Capacities`
MaxStandardFilters == 128
MaxExtendedFilters == 64
MaxDedicatedRxBuffers == 64
MaxRxFifo0 == 64
MaxRxFifo1 == 64
MaxTxBuffers == 32
MaxTxEventFifo == 32

\* LimitedArrayLength<T, MaxLength> for N: N <= MaxLength
LimitedArrayLengthAny(n, max) == TRUE
LimitedArrayLength(n, max) == n <= max

\* the bounds of an `impl Capacities for C`: what the compiler accepts
CapacitiesImpl(c) ==
    /\ LimitedArrayLength(c.StandardFilters, MaxStandardFilters)
    /\ LimitedArrayLength(c.ExtendedFilters, MaxExtendedFilters)
    /\ LimitedArrayLength(c.DedicatedRxBuffers, MaxDedicatedRxBuffers)
    /\ LimitedArrayLength(c.RxFifo0, MaxRxFifo0)
    /\ LimitedArrayLength(c.RxFifo1, MaxRxFifo1)
    /\ LimitedArrayLength(c.TxBuffers, MaxTxBuffers)
    /\ LimitedArrayLength(c.DedicatedTxBuffers, c.TxBuffers)
    /\ LimitedArrayLength(c.TxEventFifo, MaxTxEventFifo)

\* the descriptors an application may write down
AroundMax(max) == {1, max, max + 1}
CapDescriptors ==
    [StandardFilters : AroundMax(MaxStandardFilters),
     ExtendedFilters : AroundMax(MaxExtendedFilters),
     DedicatedRxBuffers : AroundMax(MaxDedicatedRxBuffers),
     RxFifo0 : {MaxRxFifo0, MaxRxFifo0 + 1},
     RxFifo1 : {MaxRxFifo1, MaxRxFifo1 + 1},
     TxBuffers : AroundMax(MaxTxBuffers),
     DedicatedTxBuffers : {0, 2} \cup AroundMax(MaxTxBuffers),
     TxEventFifo : {MaxTxEventFifo, MaxTxEventFifo + 1}]

AsU8(n) == n % 256

\* the element counts apply_ram_config writes for a descriptor
RamCounts(c) ==
    [lss |-> AsU8(c.StandardFilters),
     lse |-> AsU8(c.ExtendedFilters),
     f0s |-> AsU8(c.RxFifo0),
     f1s |-> AsU8(c.RxFifo1),
     tfqs |-> AsU8(AsU8(c.TxBuffers) - AsU8(c.DedicatedTxBuffers) + 256),
     ndtb |-> AsU8(c.DedicatedTxBuffers),
     efs |-> AsU8(c.TxEventFifo)]

NoCounts ==
    [lss |-> 0, lse |-> 0, f0s |-> 0, f1s |-> 0, tfqs |-> 0, ndtb |-> 0,
     efs |-> 0]

FnIdle == [done |-> FALSE]

CapsInit ==
    /\ fnIn \in {[fn |-> "Capacities", c |-> c] : c \in CapDescriptors}
    /\ fnOut = FnIdle

\* the program is compiled: an implementation of Capacities that breaks a
\* bound is a type error and no program exists
CapsCompile ==
    /\ fnIn.fn = "Capacities"
    /\ ~fnOut.done
    /\ fnOut' = [done |-> TRUE, accepted |-> CapacitiesImpl(fnIn.c),
                 written |-> FALSE, regs |-> NoCounts]
    /\ UNCHANGED fnIn
    /\ UNCHANGED FnOthers

\* the compiled program runs CanConfigurable::new, whose apply_ram_config
\* writes the element counts
CapsApplyRamConfig ==
    /\ fnIn.fn = "Capacities"
    /\ fnOut.done /\ fnOut.accepted /\ ~fnOut.written
    /\ fnOut' = [fnOut EXCEPT !.written = TRUE, !.regs = RamCounts(fnIn.c)]
    /\ UNCHANGED fnIn
    /\ UNCHANGED FnOthers

CapsNext ==
    \/ CapsCompile
    \/ CapsApplyRamConfig

\* ---- BitTiming::prescaler as a function of the timing and the clock ----------
\* the timings an application may write down: around the ends of the ranges
\* of both kinds, and bit rates up to ones whose product with the time
\* quanta does not fit 32 bits
TimingInputs ==
    [sjw : {0, 1, 4, 16, 17, 128, 129},
     phase_seg_1 : {0, 1, 2, 5, 11, 32, 33, 255},
     phase_seg_2 : {0, 1, 2, 4, 16, 17, 128, 129},
     bitrate : {0, 1, 100000, 500000, 7000000, 536995912}]
TimingKinds == {"nominal", "data"}
RangesOf(kind) ==
    IF kind = "nominal" THEN NOMINAL_BIT_TIMING_RANGES
    ELSE DATA_BIT_TIMING_RANGES

PrescalerInit ==
    /\ fnIn \in {[fn |-> "prescaler", t |-> t, kind |-> k, f_can |-> CanClock] :
                    t \in TimingInputs, k \in TimingKinds}
    /\ fnOut = FnIdle

PrescalerCall ==
    /\ fnIn.fn = "prescaler"
    /\ ~fnOut.done
    /\ fnOut' = [done |-> TRUE,
                 res |-> prescaler(fnIn.t, fnIn.f_can, RangesOf(fnIn.kind))]
    /\ UNCHANGED fnIn
    /\ UNCHANGED FnOthers

PrescalerNext == PrescalerCall

\* ---- apply_configuration as a function of the watermarks --------------------
\* the values of the u8 watermark fields studied: around both hardware maxima
\* and at the ends of the type
WatermarkValues == {0, 1, 31, 32, 33, 63, 64, 65, 127, 128, 255}
\* the configurations the watermarks are written into: the default one and
\* one with CAN FD
WatermarkBases ==
    {CanConfigNew(500000),
     [CanConfigNew(500000) EXCEPT
        !.mode = "Fd", !.brs = TRUE,
        !.data_phase_timing = [sjw |-> 2, phase_seg_1 |-> 5,
                               phase_seg_2 |-> 2, bitrate |-> 2000000]]}
WatermarkConfigs ==
    {[b EXCEPT !.rx_fifo_0.watermark = w0, !.rx_fifo_1.watermark = w1,
               !.tx.tx_event_fifo_watermark = we] :
        b \in WatermarkBases, w0 \in WatermarkValues, w1 \in WatermarkValues,
        we \in WatermarkValues}

WatermarkInit ==
    /\ fnIn \in {[fn |-> "apply_configuration", c |-> c] :
                    c \in WatermarkConfigs}
    /\ fnOut = FnIdle

\* finalize calls apply_configuration on the registers the constructor left
ApplyConfigurationCall ==
    /\ fnIn.fn = "apply_configuration"
    /\ ~fnOut.done
    /\ LET a == apply_configuration(
                    apply_ram_config(RegReset, SYSTEM_RAM + 256), fnIn.c)
       IN  fnOut' = [done |-> TRUE, res |-> a.res, reg |-> a.reg,
                     writes |-> a.writes]
    /\ UNCHANGED fnIn
    /\ UNCHANGED FnOthers

WatermarkNext == ApplyConfigurationCall

\* ---- apply_configuration as a function of the timings ----------------------
\* nominal timings around the ends of NOMINAL_BIT_TIMING_RANGES; with the
\* clock of 48 MHz the prescaler is 512 for (2, 2, 18750), 1024 for
\* (2, 2, 9375) and 1 for (255, 128, 125000)
NominalEdgeTimings ==
    [sjw : {0, 1, 128, 129}, phase_seg_1 : {1, 2, 255},
     phase_seg_2 : {1, 2, 128, 129}, bitrate : {9375, 18750, 125000}]
\* data phase timings around the ends of DATA_BIT_TIMING_RANGES; the
\* prescaler is 32 for (1, 1, 500000), 64 for (1, 1, 250000), 24 for
\* (3, 16, 100000) and 1 for (32, 15, 1000000)
DataEdgeTimings ==
    [sjw : {0, 1, 16, 17}, phase_seg_1 : {0, 1, 3, 32, 33},
     phase_seg_2 : {0, 1, 15, 16, 17},
     bitrate : {100000, 250000, 500000, 1000000}]
\* the largest nominal timing that is valid
NominalLargest ==
    [sjw |-> 128, phase_seg_1 |-> 255, phase_seg_2 |-> 128, bitrate |-> 125000]
\* a nominal timing whose product of bit rate and time quanta wraps to
\* 1000000 in 32 bits
NominalWrapping ==
    [sjw |-> 1, phase_seg_1 |-> 5, phase_seg_2 |-> 2, bitrate |-> 536995912]

TimingConfigs ==
    {[CanConfigNew(500000) EXCEPT !.nominal_timing = n] :
        n \in NominalEdgeTimings \cup {NominalWrapping}}
    \cup {[CanConfigNew(500000) EXCEPT
             !.mode = "Fd", !.brs = TRUE, !.nominal_timing = n,
             !.data_phase_timing = d, !.ts_prescaler = p] :
             n \in {BitTimingNew(500000), NominalLargest},
             d \in DataEdgeTimings, p \in {1, 16}}
    \cup {[CanConfigNew(500000) EXCEPT !.ts_prescaler = p] :
             p \in TsPrescalers}

TimingInit ==
    /\ fnIn \in {[fn |-> "apply_configuration", c |-> c] : c \in TimingConfigs}
    /\ fnOut = FnIdle

TimingNext == ApplyConfigurationCall

\* ---- the layout of SharedMemoryInner and what apply_ram_config programs -----
\* the largest element count of the descriptors studied
LayoutMaxCount == 2

\* size_of of a message element with N bytes of data: header [u32; 2], data
MessageSize(N) == 8 + N

\* the fields of SharedMemoryInner in the order of their declaration
\* (repr(C)), with the number and the size of their elements
LayoutFieldsTxFirst(c) ==
    <<[name |-> "filters_standard", count |-> c.StandardFilters,
       size |-> SizeStdFilter],
      [name |-> "filters_extended", count |-> c.ExtendedFilters,
       size |-> SizeExtFilter],
      [name |-> "rx_fifo_0", count |-> c.RxFifo0, size |-> MessageSize(c.N)],
      [name |-> "rx_fifo_1", count |-> c.RxFifo1, size |-> MessageSize(c.N)],
      [name |-> "rx_dedicated_buffers", count |-> c.DedicatedRxBuffers,
       size |-> MessageSize(c.N)],
      [name |-> "tx_buffers", count |-> c.TxBuffers,
       size |-> MessageSize(c.N)],
      [name |-> "tx_event_fifo", count |-> c.TxEventFifo,
       size |-> SizeTxEvent]>>
LayoutFields(c) ==
    <<[name |-> "filters_standard", count |-> c.StandardFilters,
       size |-> SizeStdFilter],
      [name |-> "filters_extended", count |-> c.ExtendedFilters,
       size |-> SizeExtFilter],
      [name |-> "rx_fifo_0", count |-> c.RxFifo0, size |-> MessageSize(c.N)],
      [name |-> "rx_fifo_1", count |-> c.RxFifo1, size |-> MessageSize(c.N)],
      [name |-> "rx_dedicated_buffers", count |-> c.DedicatedRxBuffers,
       size |-> MessageSize(c.N)],
      [name |-> "tx_event_fifo", count |-> c.TxEventFifo,
       size |-> SizeTxEvent],
      [name |-> "tx_buffers", count |-> c.TxBuffers,
       size |-> MessageSize(c.N)]>>

\* the offset of the k-th field: the sizes of the fields before it (every
\* element is aligned to 4 bytes and its size is a multiple of 4)
RECURSIVE FieldOffset(_, _)
FieldOffset(c, k) ==
    IF k = 1 THEN 0
    ELSE FieldOffset(c, k - 1)
         + LayoutFields(c)[k - 1].count * LayoutFields(c)[k - 1].size

\* core::mem::size_of::<SharedMemoryInner<C>>()
SizeOfInner(c) == FieldOffset(c, Len(LayoutFields(c)) + 1)

FieldIndex(c, name) ==
    CHOOSE k \in 1..Len(LayoutFields(c)) : LayoutFields(c)[k].name = name

\* `&mem.<field> as *const _ as u16`
FieldPtrU16(c, mem, name) == AsU16(mem + FieldOffset(c, FieldIndex(c, name)))

\* the start addresses and element counts apply_ram_config writes
RamLayout(c, mem) ==
    [sidfc |-> [sa |-> FieldPtrU16(c, mem, "filters_standard"),
                n |-> AsU8(c.StandardFilters)],
     xidfc |-> [sa |-> FieldPtrU16(c, mem, "filters_extended"),
                n |-> AsU8(c.ExtendedFilters)],
     rxf0c |-> [sa |-> FieldPtrU16(c, mem, "rx_fifo_0"),
                n |-> AsU8(c.RxFifo0)],
     rxf1c |-> [sa |-> FieldPtrU16(c, mem, "rx_fifo_1"),
                n |-> AsU8(c.RxFifo1)],
     rxbc  |-> [sa |-> FieldPtrU16(c, mem, "rx_dedicated_buffers")],
     txefc |-> [sa |-> FieldPtrU16(c, mem, "tx_event_fifo"),
                n |-> AsU8(c.TxEventFifo)],
     txbc  |-> [sa |-> FieldPtrU16(c, mem, "tx_buffers"),
                tfqs |-> AsU8(AsU8(c.TxBuffers) - AsU8(c.DedicatedTxBuffers)
                              + 256),
                ndtb |-> AsU8(c.DedicatedTxBuffers)]]

\* the descriptors studied and where the application has placed the memory
LayoutCounts == {0, LayoutMaxCount}
LayoutDescriptors ==
    [StandardFilters : LayoutCounts,
     ExtendedFilters : LayoutCounts,
     DedicatedRxBuffers : {0, 1},
     RxFifo0 : LayoutCounts,
     RxFifo1 : {1},
     TxBuffers : 0..LayoutMaxCount,
     DedicatedTxBuffers : {0, 1, LayoutMaxCount + 1},
     TxEventFifo : {0, 1},
     N : {8, 64}]
LayoutPlaces == {"first", "inside", "last", "beyond"}
LayoutStart(c, place) ==
    IF place = "first" THEN SYSTEM_RAM
    ELSE IF place = "inside" THEN SYSTEM_RAM + 256
    ELSE IF place = "last" THEN SYSTEM_RAM + AddressableSpan - SizeOfInner(c)
    ELSE SYSTEM_RAM + AddressableSpan - SizeOfInner(c) + 4

LayoutInit ==
    /\ fnIn \in {[fn |-> "layout", c |-> c, start |-> LayoutStart(c, p)] :
                    c \in LayoutDescriptors, p \in LayoutPlaces}
    /\ fnOut = FnIdle

\* the program is compiled: the bounds of Capacities hold or no program
\* exists
LayoutCompile ==
    /\ fnIn.fn = "layout"
    /\ ~fnOut.done
    /\ fnOut' = [done |-> TRUE, accepted |-> CapacitiesImpl(fnIn.c),
                 res |-> "none"]
    /\ UNCHANGED fnIn
    /\ UNCHANGED FnOthers

\* CanConfigurable::new: the addressability check, then apply_ram_config
LayoutNew ==
    /\ fnIn.fn = "layout"
    /\ fnOut.done /\ fnOut.accepted /\ fnOut.res = "none"
    /\ LET end_exclusive == fnIn.start + SizeOfInner(fnIn.c) IN
       IF SYSTEM_RAM <= fnIn.start
          /\ end_exclusive - SYSTEM_RAM <= AddressableSpan
       THEN fnOut' = [done |-> TRUE, accepted |-> TRUE, res |-> "Ok",
                      regs |-> RamLayout(fnIn.c, fnIn.start)]
       ELSE fnOut' = [done |-> TRUE, accepted |-> TRUE,
                      res |-> "MemoryNotAddressableError"]
    /\ UNCHANGED fnIn
    /\ UNCHANGED FnOthers

LayoutNext ==
    \/ LayoutCompile
    \/ LayoutNew

\* ---- SharedMemory::is_addressable as a function of the address ----------------
\* how far around the two ends of the window the addresses are taken
AddrMargin == 25

AddrStarts ==
    LET last == SYSTEM_RAM + AddressableSpan - SizeOfSharedMemory IN
    (SYSTEM_RAM - AddrMargin)..(SYSTEM_RAM + AddrMargin)
        \cup (last - AddrMargin)..(last + AddrMargin)

AddrInit ==
    /\ fnIn \in {[fn |-> "is_addressable", start |-> a] : a \in AddrStarts}
    /\ fnOut = FnIdle

IsAddressable ==
    /\ fnIn.fn = "is_addressable"
    /\ ~fnOut.done
    /\ fnOut' = [done |-> TRUE, val |-> is_addressable(fnIn.start)]
    /\ UNCHANGED fnIn
    /\ UNCHANGED FnOthers

AddrNext == IsAddressable

\* ---- message/mod.rs: data length codes ---------------------------------------
\* `len as u8`
LenAsU8(len) == len % 256

\* len_to_dlc: the smallest data length code that encodes at least len bytes
len_to_dlc_floor(len, fd_format) ==
    LET l == LenAsU8(len) IN
    IF fd_format
    THEN CASE l <= 8  -> Ok(l)
           [] l < 12  -> Ok(8)
           [] l < 16  -> Ok(9)
           [] l < 20  -> Ok(10)
           [] l < 24  -> Ok(11)
           [] l < 32  -> Ok(12)
           [] l < 48  -> Ok(13)
           [] l < 64  -> Ok(14)
           [] l = 64  -> Ok(15)
           [] OTHER   -> Err("TooMuchData")
    ELSE IF l <= 8 THEN Ok(l) ELSE Err("TooMuchData")
len_to_dlc(len, fd_format) ==
    LET l == LenAsU8(len) IN
    IF fd_format
    THEN CASE l <= 8  -> Ok(l)
           [] l <= 12 -> Ok(9)
           [] l <= 16 -> Ok(10)
           [] l <= 20 -> Ok(11)
           [] l <= 24 -> Ok(12)
           [] l <= 32 -> Ok(13)
           [] l <= 48 -> Ok(14)
           [] l <= 64 -> Ok(15)
           [] OTHER   -> Err("TooMuchData")
    ELSE IF l <= 8 THEN Ok(l) ELSE Err("TooMuchData")

\* dlc_to_len: data length code to a length in bytes
dlc_to_len(dlc, fd_format) ==
    IF fd_format
    THEN CASE dlc <= 8  -> dlc
           [] dlc = 9   -> 12
           [] dlc = 10  -> 16
           [] dlc = 11  -> 20
           [] dlc = 12  -> 24
           [] dlc = 13  -> 32
           [] dlc = 14  -> 48
           [] OTHER     -> 64
    ELSE IF dlc <= 8 THEN dlc ELSE 8

\* the lengths handed to len_to_dlc go this far
MaxLenArg == 300
\* a data length code is a u8
DlcArgs == 0..255

DlcInit ==
    /\ fnIn \in {[fn |-> "dlc_to_len", dlc |-> d, fd |-> f] :
                    d \in DlcArgs, f \in BOOLEAN}
             \cup {[fn |-> "len_to_dlc", len |-> l, fd |-> f] :
                    l \in 0..MaxLenArg, f \in BOOLEAN}
    /\ fnOut = FnIdle

\* dlc_to_len, and len_to_dlc of its result
DlcToLen ==
    /\ fnIn.fn = "dlc_to_len"
    /\ ~fnOut.done
    /\ LET len == dlc_to_len(fnIn.dlc, fnIn.fd) IN
       fnOut' = [done |-> TRUE, len |-> len,
                 dlc |-> len_to_dlc(len, fnIn.fd)]
    /\ UNCHANGED fnIn
    /\ UNCHANGED FnOthers

\* len_to_dlc, and dlc_to_len of its result
LenToDlc ==
    /\ fnIn.fn = "len_to_dlc"
    /\ ~fnOut.done
    /\ LET dlc == len_to_dlc(fnIn.len, fnIn.fd) IN
       fnOut' = [done |-> TRUE, dlc |-> dlc,
                 len |-> IF dlc.ok THEN dlc_to_len(dlc.val, fnIn.fd) ELSE 0]
    /\ UNCHANGED fnIn
    /\ UNCHANGED FnOthers

DlcNext == DlcToLen \/ LenToDlc

\* ---- message/tx.rs, message/mod.rs: building and decoding a message ----------
\* a 32-bit word is the set of the positions of its set bits
Bits(n) == {i \in 0..30 : (n \div 2^i) % 2 = 1}
RECURSIVE FromBits(_)
FromBits(w) ==
    IF w = {} THEN 0
    ELSE LET i == CHOOSE j \in w : TRUE IN 2^i + FromBits(w \ {i})
\* w << k and w >> k on u32
Shl(w, k) == {i + k : i \in w} \cap 0..31
Shr(w, k) == {i - k : i \in {j \in w : j >= k}}
\* (b as u32) << pos
Flag(b, pos) == IF b THEN {pos} ELSE {}

\* StandardId::MAX and ExtendedId::MAX of embedded_can
StandardIdMax == 2047
ExtendedIdMax == 536870911

\* the payload sizes of impl_any_message!
DataSizes == {8, 12, 16, 20, 24, 32, 48, 64}

\* MessageBuilder::build: the ID field of T0
id_field_unshifted(id) == Bits(id.raw)
id_field(id) == IF id.ext THEN Bits(id.raw) ELSE Shl(Bits(id.raw), 18)

\* MessageBuilder::build::<N>
build(m, N) ==
    LET rtr  == m.kind = "Remote"
        fdf  == m.kind = "Fd"
        d    == IF rtr THEN <<>> ELSE m.payload
        data == [i \in 1..N |-> IF i <= Len(d) THEN d[i] ELSE 0]
        xtd  == m.id.ext
        brs  == fdf /\ m.brs
        esi  == fdf /\ m.esi
        len  == IF rtr THEN m.desired_len ELSE Len(d)
        dlc  == len_to_dlc(len, fdf)
        efc  == m.store_tx_event.some
        mm   == IF m.store_tx_event.some THEN m.store_tx_event.val ELSE 0
        t0   == id_field(m.id) \cup Flag(rtr, 29) \cup Flag(xtd, 30)
                    \cup Flag(esi, 31)
        t1   == Shl(Bits(dlc.val) \cap Bits(15), 16) \cup Flag(brs, 20)
                    \cup Flag(fdf, 21) \cup Flag(efc, 23) \cup Shl(Bits(mm), 24)
    IN  IF Len(d) > N THEN Err("TooMuchData")
        ELSE IF ~dlc.ok THEN Err("TooMuchData")
        ELSE [ok |-> TRUE, val |-> [header |-> <<t0, t1>>, data |-> data],
              err |-> "none"]

\* Raw for RawMessage<N> (header[0] is header[1] here: sequences start at 1)
Raw_is_extended(r) == 30 \in r.header[1]
Raw_id(r) ==
    IF Raw_is_extended(r)
    THEN ExtId(FromBits(r.header[1] \cap Bits(ExtendedIdMax)))
    ELSE StdId(FromBits((Shr(r.header[1], 18) \cap 0..15) \cap Bits(StandardIdMax)))
Raw_dlc(r) == FromBits(Shr(r.header[2], 16) \cap Bits(15))
Raw_fd_format(r) == 21 \in r.header[2]
Raw_decoded_dlc(r) == dlc_to_len(Raw_dlc(r), Raw_fd_format(r))
Raw_is_remote_frame(r) == 29 \in r.header[1]
Raw_data(r) ==
    IF ~Raw_is_remote_frame(r)
    THEN SubSeq(r.data, 1, Min(Raw_decoded_dlc(r), Len(r.data)))
    ELSE <<>>

\* the payloads go this far beyond the slot width
PayloadOver == 1
BuildIds == {StdId(5), StdId(2047), ExtId(5), ExtId(262145), ExtId(536870911)}
PayloadPatterns == {"count", "high"}
PayloadOf(len, p) == [i \in 1..len |-> IF p = "count" THEN i ELSE 255]
RemoteLens == {0, 8, 9, 15, 256}
TxEventMarkers == {[some |-> FALSE, val |-> 0], [some |-> TRUE, val |-> 255]}
Builders(N) ==
    {[kind |-> "Data", id |-> id, payload |-> PayloadOf(l, p), desired_len |-> 0,
      brs |-> FALSE, esi |-> FALSE, store_tx_event |-> e] :
        id \in BuildIds, l \in 0..(N + PayloadOver), p \in PayloadPatterns,
        e \in TxEventMarkers}
    \cup
    {[kind |-> "Fd", id |-> id, payload |-> PayloadOf(l, p), desired_len |-> 0,
      brs |-> b, esi |-> x, store_tx_event |-> e] :
        id \in BuildIds, l \in 0..(N + PayloadOver), p \in PayloadPatterns,
        b \in BOOLEAN, x \in BOOLEAN, e \in TxEventMarkers}
    \cup
    {[kind |-> "Remote", id |-> id, payload |-> <<>>, desired_len |-> l,
      brs |-> FALSE, esi |-> FALSE, store_tx_event |-> e] :
        id \in BuildIds, l \in RemoteLens, e \in TxEventMarkers}

MsgInit ==
    /\ fnIn \in UNION {{[fn |-> "build", m |-> m, N |-> N] : m \in Builders(N)} :
                         N \in DataSizes}
    /\ fnOut = FnIdle

\* the message could not be built
BuildErr ==
    /\ fnIn.fn = "build"
    /\ ~fnOut.done
    /\ ~build(fnIn.m, fnIn.N).ok
    /\ fnOut' = [done |-> TRUE, ok |-> FALSE]
    /\ UNCHANGED fnIn
    /\ UNCHANGED FnOthers

\* the message was built; the accessors of Raw read it
BuildOk ==
    /\ fnIn.fn = "build"
    /\ ~fnOut.done
    /\ LET res == build(fnIn.m, fnIn.N) IN
       /\ res.ok
       /\ fnOut' = [done |-> TRUE, ok |-> TRUE,
                    id |-> Raw_id(res.val),
                    is_extended |-> Raw_is_extended(res.val),
                    fd_format |-> Raw_fd_format(res.val),
                    is_remote_frame |-> Raw_is_remote_frame(res.val),
                    dlc |-> Raw_dlc(res.val),
                    data |-> Raw_data(res.val)]
    /\ UNCHANGED fnIn
    /\ UNCHANGED FnOthers

MsgNext == BuildErr \/ BuildOk

\* ---- interrupt.rs: InterruptSet::iter and FromIterator ------------------------
\* the bits the iterated values are made of; 30 and 31 are reserved
IterBits == {0, 1, 13, 28, 29, 30, 31}
IterValues == SUBSET IterBits \cup {0..31, 0..29}

\* FromIterator<Interrupt> for InterruptSet
from_iter(items) == {items[i] : i \in 1..Len(items)}

IterInit ==
    /\ fnIn \in {[fn |-> "iter", flags |-> v] : v \in IterValues}
    /\ fnOut = FnIdle

\* InterruptSet::iter
IterCreate ==
    /\ fnIn.fn = "iter"
    /\ fnOut = FnIdle
    /\ fnOut' = [done |-> FALSE, index |-> 0, items |-> <<>>]
    /\ UNCHANGED fnIn
    /\ UNCHANGED FnOthers

\* Iter::next, called until it returns None; a call of itself is a step
IterNextCall ==
    /\ fnIn.fn = "iter"
    /\ fnOut # FnIdle
    /\ ~fnOut.done
    /\ LET st == IterStep(fnIn.flags, fnOut.index) IN
       fnOut' = [done |-> st.ret = "None", index |-> st.index,
                 items |-> IF st.ret = "Some" THEN Append(fnOut.items, st.val)
                           ELSE fnOut.items]
    /\ UNCHANGED fnIn
    /\ UNCHANGED FnOthers

IterNextActions == IterCreate \/ IterNextCall

\* no function under study
FnQuiet == fnIn = [fn |-> "none"] /\ fnOut = FnIdle

IrqSpecInit == IrqInit /\ BusQuiet /\ TxQuiet /\ FifoQuiet /\ RxbQuiet /\ FnQuiet /\ OwnQuiet /\ FlagQuiet
SpecIrq == IrqSpecInit /\ [][IrqNext]_vars

FlagsSpecInit ==
    IrqInit /\ FlagInit /\ BusQuiet /\ TxQuiet /\ FifoQuiet /\ RxbQuiet /\ FnQuiet /\ OwnQuiet
SpecFlags == FlagsSpecInit /\ [][FlagsNext]_vars

BusSpecInit ==
    BusInit /\ IrqQuiet /\ TxQuiet /\ FifoQuiet /\ RxbQuiet /\ FnQuiet /\ OwnQuiet /\ FlagQuiet
SpecBus == BusSpecInit /\ [][BusNext]_vars

\* the peripheral acknowledges every written mode bit in the end, and a busy
\* poll that reads the value it waits for goes on
BusFairness ==
    /\ WF_vars(HwAckInit)
    /\ WF_vars(HwAckCce)
    /\ WF_vars(ConfigurationModeCce)
    /\ WF_vars(NewFinish)
    /\ WF_vars(FinalizeReturn)
    /\ WF_vars(ConfigureReturn)
    /\ WF_vars(AuxOperationalModeReturn)
SpecBusLive == BusSpecInit /\ [][BusNext]_vars /\ BusFairness

TxSpecInit ==
    TxInit /\ IrqQuiet /\ BusQuiet /\ FifoQuiet /\ RxbQuiet /\ FnQuiet /\ OwnQuiet /\ FlagQuiet
SpecTx == TxSpecInit /\ [][TxNext]_vars

CancelSpecInit ==
    TxInit /\ IrqQuiet /\ BusQuiet /\ FifoQuiet /\ RxbQuiet /\ FnQuiet /\ OwnQuiet /\ FlagQuiet
\* the application keeps calling, every call runs to its end, and the
\* peripheral finishes every cancellation it was asked for
CancelFairness ==
    /\ WF_vars(PollingCancelMulti)
    /\ WF_vars(CancelPoll)
    /\ \A i \in TxBuffers : WF_vars(HwCancelFinished(i))
SpecCancel == CancelSpecInit /\ [][CancelNext]_vars /\ CancelFairness

CancelWideSpecInit ==
    /\ TxInit /\ IrqQuiet /\ BusQuiet /\ FifoQuiet /\ FnQuiet /\ OwnQuiet
    /\ FlagQuiet
    /\ RxbInit /\ idOrd = "arbitration"
SpecCancelWide == CancelWideSpecInit /\ [][CancelWideNext]_vars

FifoSpecInit ==
    FifoInit /\ IrqQuiet /\ BusQuiet /\ TxQuiet /\ RxbQuiet /\ FnQuiet /\ OwnQuiet /\ FlagQuiet
SpecFifo == FifoSpecInit /\ [][FifoNext]_vars

RxbSpecInit ==
    RxbInit /\ IrqQuiet /\ BusQuiet /\ TxQuiet /\ FifoQuiet /\ FnQuiet /\ OwnQuiet /\ FlagQuiet
SpecRxb == RxbSpecInit /\ [][RxbNext]_vars

\* all 64 dedicated buffers configured, with filters that store into the
\* last buffer of NDAT1 and into the first and the last buffer of NDAT2
HighBuffers == {31, 32, 63}
RxbWideInit ==
    /\ rxbmem = [i \in 0..(MaxDedicatedRxBuffers - 1) |-> ZeroId]
    /\ ndat = {}
    /\ rxbRes = NoRxbCall
    /\ idOrd = "arbitration"
    /\ rxbFed = HighBuffers
    /\ overflow_checks \in BOOLEAN
RxbWideSpecInit ==
    RxbWideInit /\ IrqQuiet /\ BusQuiet /\ TxQuiet /\ FifoQuiet /\ FnQuiet /\ OwnQuiet /\ FlagQuiet
SpecRxbWide == RxbWideSpecInit /\ [][RxbNext]_vars

\* the components held still while a function is studied
AllQuiet ==
    IrqQuiet /\ FlagQuiet /\ BusQuiet /\ TxQuiet /\ FifoQuiet /\ RxbQuiet
        /\ OwnQuiet

AddrSpecInit == AddrInit /\ AllQuiet
OwnSpecInit ==
    OwnInit /\ IrqQuiet /\ FlagQuiet /\ BusQuiet /\ TxQuiet /\ FifoQuiet
        /\ RxbQuiet /\ FnQuiet
SpecOwn == OwnSpecInit /\ [][OwnNext]_vars
PrescalerSpecInit ==
    /\ IrqQuiet /\ FlagQuiet /\ BusQuiet /\ TxQuiet /\ FifoQuiet /\ OwnQuiet
    /\ RxbInit /\ idOrd = "arbitration"
    /\ PrescalerInit
SpecPrescaler == PrescalerSpecInit /\ [][PrescalerNext]_vars
WatermarkSpecInit == AllQuiet /\ WatermarkInit
SpecWatermark == WatermarkSpecInit /\ [][WatermarkNext]_vars
TimingSpecInit == AllQuiet /\ TimingInit
SpecTiming == TimingSpecInit /\ [][TimingNext]_vars
LayoutSpecInit == AllQuiet /\ LayoutInit
SpecLayout == LayoutSpecInit /\ [][LayoutNext]_vars
IterSpecInit == AllQuiet /\ IterInit
\* the loop over the iterator keeps calling next
SpecIter ==
    IterSpecInit /\ [][IterNextActions]_vars
        /\ WF_vars(IterCreate) /\ WF_vars(IterNextCall)
MsgSpecInit == AllQuiet /\ MsgInit
SpecMsg == MsgSpecInit /\ [][MsgNext]_vars
DlcSpecInit == DlcInit /\ AllQuiet
SpecDlc == DlcSpecInit /\ [][DlcNext]_vars
SpecAddr == AddrSpecInit /\ [][AddrNext]_vars

CapsSpecInit == CapsInit /\ AllQuiet
SpecCaps == CapsSpecInit /\ [][CapsNext]_vars

(***************************************************************************)
(* Properties of cancellation                                              *)
(***************************************************************************)
CancelReturns == cancelRes'.tick # cancelRes.tick
CancelCalled == ~cancelPc.on /\ (CancelReturns \/ cancelPc'.on)
CancelArg == IF cancelPc'.on THEN cancelPc'.set ELSE cancelRes'.set

C11_Result ==
    [][CancelReturns =>
          /\ cancelRes'.res \in {"Ok", "WouldBlock"}
          /\ cancelRes'.res = "Ok" <=> cancelRes'.set \subseteq txbcf']_vars

C11_Request ==
    [][CancelCalled =>
          IF CancelArg \subseteq txbcf
          THEN /\ CancelReturns
               /\ UNCHANGED <<txbcr, txbcf>>
          ELSE /\ cancelPc'.on
               /\ CancelArg \cap txbrp \subseteq txbcr'
               /\ CancelArg \ txbrp \subseteq txbcf']_vars

C11_EventuallyOk == CancelOutstanding ~> cancelRes.res = "Ok"

\* C11: cancel / cancel_multi returns Ok exactly when every requested flag of
\* TXBCF is set at its last poll and WouldBlock otherwise; a call whose
\* buffers are not all confirmed yet writes the cancellation request for
\* them; and an application that keeps polling a cancellation whose buffers
\* the peripheral eventually confirms eventually gets Ok.
C11_Cancel == C11_Result /\ C11_Request /\ C11_EventuallyOk

\* two pending queue buffers were canceled before they were sent, and the
\* cancellation of both has returned Ok
C11_Witness ==
    /\ cancelRes.res = "Ok"
    /\ Cardinality(cancelRes.set) = 2
    /\ cancelRes.set \subseteq txbcf
    /\ cancelRes.set \cap txbto = {}
    /\ \A i \in cancelRes.set : txmem[i] = "m1"

(***************************************************************************)
(* Properties of the receive FIFO and the transmit event FIFO              *)
(***************************************************************************)
RxCalled == rxPc = RxIdle /\ (rxRes'.tick # rxRes.tick \/ rxPc' # RxIdle)
RxReturnsOk == rxPc # RxIdle /\ rxRes'.tick # rxRes.tick
TxeCalled == txePc = TxeIdle /\ (txeRes'.tick # txeRes.tick \/ txePc' # TxeIdle)
TxeReturnsSome == txePc # TxeIdle /\ txeRes'.tick # txeRes.tick

C12_RxFifo ==
    [][/\ RxCalled =>
             IF rxf.fill = 0
             THEN /\ rxRes'.tick # rxRes.tick
                  /\ rxRes'.res \in {"WouldBlock", "None"}
                  /\ rxRes'.ack = -1
                  /\ UNCHANGED <<rxf, rxPc, rxOut>>
             ELSE /\ rxRes' = rxRes
                  /\ rxPc'.get = rxf.get
       /\ (rxPc.pos = 1 /\ rxPc'.pos = 2) =>
             /\ rxPc'.msg = rxf.mem[rxPc.get]
             /\ rxf' = rxf
       /\ RxReturnsOk =>
             /\ rxRes'.res \in {"Ok", "Some"}
             /\ rxRes'.msg = rxPc.msg
             /\ rxRes'.ack = rxPc.get
             /\ rxf' = FifoAck(rxf, rxPc.get, CapRxFifo0)
             /\ rxMode = "Blocking" =>
                   /\ rxRes'.ack = rxf.get
                   /\ rxRes'.msg = rxf.mem[rxf.get]
                   /\ rxf'.fill = rxf.fill - 1]_vars

C12_TxEventFifo ==
    [][/\ TxeCalled =>
             IF txef.fill = 0
             THEN /\ txeRes'.tick # txeRes.tick
                  /\ txeRes'.res = "None"
                  /\ txeRes'.ack = -1
                  /\ UNCHANGED <<txef, txePc>>
             ELSE /\ txeRes' = txeRes
                  /\ txePc'.get = txef.get
       /\ TxeReturnsSome =>
             /\ txeRes'.res = "Some"
             /\ txeRes'.ack = txePc.get
             /\ txeRes'.ack = txef.get
             /\ txeRes'.msg = txef.mem[txef.get]
             /\ txef' = FifoAck(txef, txePc.get, CapTxEventFifo)
             /\ txef'.fill = txef.fill - 1]_vars

\* C12: RxFifo::receive and TxEventFifo::pop return the empty indicator at
\* once when the fill level they read is zero, writing no acknowledge and
\* changing nothing; with a non-zero fill level they return the element at
\* the get index the peripheral reported and acknowledge exactly that index.
C12_QueueAccessors == C12_RxFifo /\ C12_TxEventFifo

\* receive has returned the element of the last slot of the RX FIFO, and a
\* pop has found the TX event FIFO empty after an event had been taken
C12_Witness ==
    /\ rxRes.res = "Ok"
    /\ rxRes.ack = CapRxFifo0 - 1
    /\ rxRes.msg = CapRxFifo0
    /\ txeRes.res = "None"
    /\ txeIn = 1
    /\ txef.fill = 0

C13_InOrder ==
    rxMode = "Blocking" =>
        /\ Len(rxOut) <= rxIn
        /\ \A k \in 1..Len(rxOut) : rxOut[k] = k
        /\ rxPc = RxIdle => rxf.fill = rxIn - Len(rxOut)

C13_OnePerCall ==
    [][/\ Len(rxOut') <= Len(rxOut) + 1
       /\ Len(rxOut') = Len(rxOut) + 1 <=> RxReturnsOk
       /\ (RxCalled /\ rxRes'.tick # rxRes.tick) <=> (RxCalled /\ rxf.fill = 0)
       /\ rxRes'.tick # rxRes.tick =>
              (rxRes'.res \in {"WouldBlock", "None"} <=> RxCalled)]_vars

\* C13: in blocking mode the calls of receive (or the steps of the iterator)
\* return the stored messages in the order of their arrival, each once and
\* one per call; a call returns WouldBlock (None) exactly when the fill level
\* it read is zero, and between calls the fill level is the number of stored
\* messages not yet returned, so draining n pending messages takes n calls.
C13_FifoOrder == []C13_InOrder /\ C13_OnePerCall

\* every stored message was returned in order through a FIFO that wrapped
\* around, and the iterator then stopped
C13_Witness ==
    /\ rxMode = "Blocking"
    /\ Len(rxOut) = MaxRxStored
    /\ MaxRxStored > CapRxFifo0
    /\ rxRes.op = "next"
    /\ rxRes.res = "None"

(***************************************************************************)
(* Properties of the dedicated receive buffers                             *)
(***************************************************************************)
RxbReturns(op) == rxbRes'.tick # rxbRes.tick /\ rxbRes'.op = op
RxbFlagged == {i \in RxBuffers : i \in ndat}

C15_OutOfRangeIndex ==
    [][RxbReturns("receive") =>
          /\ rxbRes'.index >= CapRxBuffers =>
                /\ rxbRes'.res = "OutOfBounds"
                /\ rxbRes'.wrote = {}
                /\ UNCHANGED ndat
          /\ rxbRes'.res = "WouldBlock" =>
                /\ rxbRes'.index \in RxBuffers
                /\ rxbRes'.index \notin ndat]_vars

\* C30: for every index in 0..63 whose new-data flag is set, receive(index)
\* completes (no arithmetic overflow ends it), returns the message of that
\* slot, clears the flag of that index and leaves every other flag of NDAT1
\* and NDAT2 as it was.
C30_ReceiveBothHalves ==
    [][\A index \in 0..(MaxDedicatedRxBuffers - 1) :
          (RxbReturns("receive") /\ rxbRes'.index = index /\ index \in ndat) =>
              /\ rxbRes'.res = "Ok"
              /\ rxbRes'.id = rxbmem[index]
              /\ ndat' = ndat \ {index}]_vars

\* the same where overflow is not checked: the shift amount is taken
\* modulo 32, which is the position of the flag in NDAT2
C30_ReceiveUnchecked ==
    [][\A index \in 0..(MaxDedicatedRxBuffers - 1) :
          (/\ ~overflow_checks
           /\ RxbReturns("receive") /\ rxbRes'.index = index /\ index \in ndat) =>
              /\ rxbRes'.res = "Ok"
              /\ rxbRes'.id = rxbmem[index]
              /\ ndat' = ndat \ {index}]_vars

(***************************************************************************)
(* Properties of the filter tables                                         *)
(***************************************************************************)
FilterTables == {"std", "ext"}
PushReturns == busRes'.op = "push" /\ (busRes' # busRes \/ filters' # filters)

\* C16: the length of a table, zero when the constructor has initialised the
\* memory, grows by one with every successful push and changes in no other
\* way, so it counts them; a push into a table of length k
\* below the capacity returns index k, stores the encoding of the filter in
\* slot k and touches no other slot; a push into a full table gives the
\* filter back and leaves slots and length unchanged.
C16_PushAppends ==
    [][/\ \A t \in FilterTables :
             filters'[t] # filters[t] =>
                \/ PushReturns /\ busRes'.table = t
                \/ phase = "None" /\ busRes'.op = "new"
                      /\ filters'[t] = EmptyFilters[t]
       /\ PushReturns =>
             LET t == busRes'.table
                 k == filters[t].len
             IN /\ \A u \in FilterTables \ {t} : filters'[u] = filters[u]
                /\ IF k < Cardinality(DOMAIN filters[t].memory)
                   THEN /\ busRes'.res = "Ok"
                        /\ busRes'.index = k
                        /\ filters'[t].len = k + 1
                        /\ filters'[t].memory[k] = Encode(t, busRes'.filter)
                        /\ \A i \in DOMAIN filters[t].memory \ {k} :
                              filters'[t].memory[i] = filters[t].memory[i]
                   ELSE /\ busRes'.res = "Full"
                        /\ busRes'.filter \in StdFilterInputs \cup ExtFilterInputs
                        /\ filters' = filters]_vars

\* the table of standard filters was filled by pushes of different filters
\* and a further push was turned down
C16_Witness ==
    /\ busRes.op = "push"
    /\ busRes.res = "Full"
    /\ busRes.table = "std"
    /\ filters.std.len = CapStdFilters
    /\ filters.std.memory[0] # filters.std.memory[CapStdFilters - 1]

(***************************************************************************)
(* Properties of the capacities                                            *)
(***************************************************************************)
\* C17: a descriptor is accepted only if every count is within its hardware
\* maximum (128 standard and 64 extended filters, 64 dedicated RX buffers,
\* 64 elements in each RX FIFO, 32 TX buffers, 32 TX events) and the
\* dedicated TX buffers are at most the TX buffers; for a descriptor that
\* is not accepted no register is ever written, and the counts written for
\* an accepted one are the counts of the descriptor.
C17_CapacitiesBounded ==
    (fnIn.fn = "Capacities" /\ fnOut.done) =>
        LET c == fnIn.c IN
        /\ fnOut.accepted <=>
              /\ c.StandardFilters <= 128
              /\ c.ExtendedFilters <= 64
              /\ c.DedicatedRxBuffers <= 64
              /\ c.RxFifo0 <= 64
              /\ c.RxFifo1 <= 64
              /\ c.TxBuffers <= 32
              /\ c.TxEventFifo <= 32
              /\ c.DedicatedTxBuffers <= c.TxBuffers
        /\ fnOut.written => fnOut.accepted
        /\ fnOut.written =>
              /\ fnOut.regs.lss = c.StandardFilters
              /\ fnOut.regs.lse = c.ExtendedFilters
              /\ fnOut.regs.f0s = c.RxFifo0
              /\ fnOut.regs.f1s = c.RxFifo1
              /\ fnOut.regs.efs = c.TxEventFifo
              /\ fnOut.regs.ndtb = c.DedicatedTxBuffers
              /\ fnOut.regs.ndtb + fnOut.regs.tfqs = c.TxBuffers

\* a descriptor with every count at its maximum was accepted and its counts
\* were written
C17_Witness ==
    /\ fnIn.fn = "Capacities"
    /\ fnOut.done /\ fnOut.written
    /\ fnIn.c.StandardFilters = 128
    /\ fnIn.c.DedicatedRxBuffers = 64
    /\ fnIn.c.TxBuffers = 32
    /\ fnIn.c.DedicatedTxBuffers = 32

(***************************************************************************)
(* Properties of SharedMemory::is_addressable                              *)
(***************************************************************************)
\* the region [start, start + size) and the 64 KiB window from SYSTEM_RAM
AddrRegion == fnIn.start..(fnIn.start + SizeOfSharedMemory - 1)
AddrWindowFirst == 536870912
AddrWindowLast == 536870912 + 65536 - 1

EncodableLengths(fd) ==
    IF fd THEN 0..8 \cup {12, 16, 20, 24, 32, 48, 64} ELSE 0..8
\* the data length codes of the format
ValidDlcs(fd) == IF fd THEN 0..15 ELSE 0..8
\* the longest payload of the format
FormatMax(fd) == IF fd THEN 64 ELSE 8

\* C20: len_to_dlc(dlc_to_len(dlc, fd), fd) = Ok(dlc) for every dlc in 0..15
\* of an FD frame and every dlc in 0..8 of a classic frame, and
\* dlc_to_len(len_to_dlc(len, fd), fd) is the smallest encodable length that is
\* at least len, for every len the format accepts.
C20_DlcRoundTrip ==
    /\ (fnIn.fn = "dlc_to_len" /\ fnOut.done /\ fnIn.dlc \in ValidDlcs(fnIn.fd)) =>
          /\ fnOut.dlc.ok
          /\ fnOut.dlc.val = fnIn.dlc
    /\ (fnIn.fn = "len_to_dlc" /\ fnOut.done /\ fnIn.len <= FormatMax(fnIn.fd)) =>
          /\ fnOut.dlc.ok
          /\ fnOut.len \in EncodableLengths(fnIn.fd)
          /\ fnOut.len >= fnIn.len
          /\ \A l \in EncodableLengths(fnIn.fd) : l >= fnIn.len => fnOut.len <= l

\* a length between two encodable lengths was rounded up
C20_Witness ==
    /\ fnIn.fn = "len_to_dlc" /\ fnOut.done
    /\ fnIn.fd /\ fnIn.len = 33
    /\ fnOut.dlc.ok /\ fnOut.dlc.val = 14 /\ fnOut.len = 48

(***************************************************************************)
(* Properties of building and decoding a message                           *)
(***************************************************************************)
\* a data frame whose payload fits the slot and the format was handed to build
BuildInRange ==
    /\ fnIn.fn = "build" /\ fnOut.done
    /\ fnIn.m.kind \in {"Data", "Fd"}
    /\ Len(fnIn.m.payload) <= fnIn.N
    /\ Len(fnIn.m.payload) <= FormatMax(fnIn.m.kind = "Fd")

\* ID, kind and FD flag come back as they were given
BuildKeepsHeader ==
    /\ fnOut.ok
    /\ fnOut.id = fnIn.m.id
    /\ fnOut.is_extended = fnIn.m.id.ext
    /\ fnOut.fd_format = (fnIn.m.kind = "Fd")

\* the payload followed by zero bytes, len bytes in all
ZeroPadded(payload, len) ==
    [i \in 1..len |-> IF i <= Len(payload) THEN payload[i] ELSE 0]

\* C19 as stated: building a message of a standard or extended ID, either
\* frame format and a payload within the slot width and the format's maximum
\* succeeds, and decoding it returns the same ID, the same kind, the same FD
\* flag and exactly the same payload bytes, same length and same content.
C19_RoundTrip ==
    BuildInRange => (BuildKeepsHeader /\ fnOut.data = fnIn.m.payload)

\* C19 amended: building succeeds and decoding returns the same ID, kind and FD
\* flag; the payload comes back exactly when its length is one a data length
\* code encodes (0..8, 12, 16, 20, 24, 32, 48, 64), otherwise it comes back
\* followed by zero bytes up to the next such length.
C19_RoundTripPadded ==
    BuildInRange =>
        /\ BuildKeepsHeader
        /\ \E l \in EncodableLengths(fnIn.m.kind = "Fd") :
              /\ l >= Len(fnIn.m.payload)
              /\ \A k \in EncodableLengths(fnIn.m.kind = "Fd") :
                    k >= Len(fnIn.m.payload) => l <= k
              /\ fnOut.data = ZeroPadded(fnIn.m.payload, l)
        /\ Len(fnIn.m.payload) \in EncodableLengths(fnIn.m.kind = "Fd")
              => fnOut.data = fnIn.m.payload

\* an FD frame of 9 bytes under an extended ID was built and decoded
C19_Witness ==
    /\ BuildInRange /\ fnOut.ok
    /\ fnIn.m.kind = "Fd" /\ fnIn.m.id.ext
    /\ Len(fnIn.m.payload) = 9
    /\ Len(fnOut.data) = 12

\* the length a builder asks for: of the payload, or of the requested frame
RequestedLen(m) == IF m.kind = "Remote" THEN m.desired_len ELSE Len(m.payload)

\* C21: building never truncates silently: whenever the requested length
\* (payload length or desired length of a remote frame) exceeds the slot
\* width or the format's maximum, build returns TooMuchData and no message.
C21_NoSilentTruncation ==
    (/\ fnIn.fn = "build" /\ fnOut.done
     /\ \/ RequestedLen(fnIn.m) > FormatMax(fnIn.m.kind = "Fd")
        \/ fnIn.m.kind # "Remote" /\ RequestedLen(fnIn.m) > fnIn.N)
        => ~fnOut.ok

(***************************************************************************)
(* Properties of the handles and the pending flags                         *)
(***************************************************************************)
\* the flags some other handle or the registry owns
OwnedElsewhere(own) == AllInterrupts \ own

\* C22: clear_interrupts(subset) clears only pending flags that are in subset
\* and in the handle's own mask; a pending flag owned by another handle or by
\* the registry is never cleared by it.
C22_ClearOnlyOwned ==
    [][\A i \in 1..MaxHandles, subset \in ClearArgs :
          ClearInterrupts(i, subset) =>
              /\ (ir \ ir') \subseteq (subset \cap handles[i])
              /\ \A b \in OwnedElsewhere(handles[i]) : b \in ir <=> b \in ir'
              /\ ir' \subseteq ir]_vars

\* C22: interrupt_flags() reports only flags inside the handle's own mask.
C22_FlagsOnlyOwned ==
    (flagRes.op = "interrupt_flags") => flagRes.val \subseteq flagRes.own

\* C22: both parts
C22_OwnedFlagsOnly == C22_ClearOnlyOwned /\ []C22_FlagsOnlyOwned

\* a handle was asked to clear a pending flag it does not own, and one it owns
C22_Witness ==
    /\ flagRes.op = "clear_interrupts"
    /\ flagRes.own = {9}
    /\ flagRes.arg = {0, 9}
    /\ 0 \in ir /\ 9 \notin ir
    /\ \E i \in 1..Len(handles) : handles[i] = {0}

\* the items of a sequence, and whether each occurs once
Items(q) == {q[i] : i \in 1..Len(q)}
EachOnce(q) == \A i, j \in 1..Len(q) : q[i] = q[j] => i = j

\* iter_flagged returns in this step; before it, the call has read IR
IterFlaggedReturns == flagPc.on /\ ~flagPc'.on

\* C23: iter_flagged reads the pending flags once, clears exactly the owned
\* flags that were pending at that read and yields exactly those, each once;
\* an owned flag raised after the read is neither yielded nor cleared and is
\* still pending afterwards.
C23_AtRead ==
    [][(~flagPc.on /\ flagPc'.on) =>
          flagPc'.interrupts = {b \in flagPc'.own : b \in ir}]_vars
C23_AtReturn ==
    [][IterFlaggedReturns =>
          LET own == flagPc.own
              pending == flagPc.interrupts
              items == flagRes'.items
          IN  /\ flagRes'.op = "iter_flagged"
              /\ Items(items) = pending
              /\ EachOnce(items)
              /\ ir \ ir' = pending \cap ir
              /\ ir' \cap pending = {}
              /\ \A b \in own : (b \in ir /\ b \notin pending) =>
                    (b \in ir' /\ b \notin Items(items))]_vars
C23_DrainsWhatWasPending == C23_AtRead /\ C23_AtReturn

\* an owned flag was raised between the read and the clear of iter_flagged
\* while another owned flag was pending at the read
C23_Witness ==
    /\ flagRes.op = "iter_flagged"
    /\ flagRes.own = {0, 9}
    /\ flagRes.items = <<9>>
    /\ flagRes.late = {0}
    /\ ~flagPc.on
    /\ 0 \in ir /\ 9 \notin ir

(***************************************************************************)
(* Properties of disable                                                   *)
(***************************************************************************)
\* C24: disable(handle) returns all of the handle's flags to the registry and
\* clears exactly those flags' bits in IE; enable(S, line) followed by disable
\* of the returned handle restores the registry's owned set and IE to their
\* values before the enable.
C24_DisableUndoesEnable ==
    (irqRes.op = "disable") =>
        /\ disabled = irqRes.before.disabled \cup irqRes.req
        /\ ie = irqRes.before.ie \ irqRes.req
        /\ irqRes.undo =>
              /\ disabled = irqRes.at.disabled
              /\ ie = irqRes.at.ie

(***************************************************************************)
(* Properties of InterruptSet::iter                                        *)
(***************************************************************************)
\* the flags of a value, the reserved bits 30 and 31 left out
Unreserved(flags) == {b \in flags : b <= 29}

\* the iteration has come to its end
IterEnded == fnIn.fn = "iter" /\ fnOut # FnIdle /\ fnOut.done

\* C26: what the iteration has yielded when it ends: each set flag among the
\* bits 0..29 exactly once, so as many items as (value & 0x3fff_ffff) has set
\* bits, and collecting them gives value & 0x3fff_ffff.
C26_Yielded ==
    IterEnded =>
        /\ Len(fnOut.items) = Cardinality(Unreserved(fnIn.flags))
        /\ \A b \in Unreserved(fnIn.flags) :
              Cardinality({i \in 1..Len(fnOut.items) : fnOut.items[i] = b}) = 1
        /\ from_iter(fnOut.items) = Unreserved(fnIn.flags)

\* C26: InterruptSet::iter terminates for every value and yields each set
\* flag among bits 0..29 exactly once, ignoring the reserved bits 30 and 31.
C26_IterTerminates == <>IterEnded /\ []C26_Yielded

\* a value with both reserved bits set was iterated to its end
C26_Witness ==
    /\ IterEnded
    /\ fnIn.flags = {0, 29, 30, 31}
    /\ fnOut.items = <<0, 29>>

(***************************************************************************)
(* Properties of finalize                                                  *)
(***************************************************************************)
\* the registers a successful finalize writes before it touches INIT
DeferredWrites(fd) ==
    {"nbtp", "tscc", "cccr.fdoe", "gfc", "cccr.test", "test", "rxf0c", "rxf1c",
     "txbc", "txefc"} \cup (IF fd THEN {"dbtp"} ELSE {})

\* a step in which finalize() returns an error
FinalizeFails == phase = "Configurable" /\ phase' = "Dropped"

\* finalize has validated the configuration and written it in this step
FinalizeWrites == busPc = Idle /\ busPc'.op = "finalize"

\* C27: on a successful finalize every deferred configuration register write
\* happens while INIT is still set and before INIT is cleared
C27_WritesUnderInit ==
    [][FinalizeWrites =>
          /\ init /\ initReq
          /\ init'
          /\ wlog'[Len(wlog')] = "cccr.init"
          /\ {wlog'[i] : i \in 1..(Len(wlog') - 1)}
                = DeferredWrites(config.mode = "Fd")
          /\ ~initReq']_vars

\* C27: finalize returns the operational handle only after the hardware
\* reports INIT = 0
C27_ReturnsAfterAck ==
    [][(phase = "Configurable" /\ phase' = "Operational") =>
          (~init /\ ~init' /\ busRes'.op = "finalize" /\ busRes'.res = "Ok")]_vars

\* C27: both parts
C27_FinalizeOrder == C27_WritesUnderInit /\ C27_ReturnsAfterAck

\* a CAN FD configuration was finalized and the bus is in operation
C27_Witness ==
    /\ phase = "Operational"
    /\ busPc = Idle
    /\ busRes = [op |-> "finalize", res |-> "Ok"]
    /\ ~init
    /\ \E i \in 1..Len(wlog) : wlog[i] = "dbtp"

(***************************************************************************)
(* Properties of the busy polls of the mode transitions                    *)
(***************************************************************************)
\* a call of the controller waits in one of its polls
Polling(at) == busPc # Idle /\ busPc.at = at
\* the running call leaves the poll it waits in
LeavesPoll(at) == Polling(at) /\ busPc' # busPc

\* C28: a mode transition leaves its busy poll only when the hardware reports
\* the requested value, and it never leaves it with an error: without the
\* acknowledge the call does not return.
C28_ReturnsOnlyOnAck ==
    [][/\ LeavesPoll("wait_init") => (init /\ busPc'.at = "wait_cce")
       /\ LeavesPoll("wait_cce") => (cce /\ init /\ busPc' = Idle)
       /\ LeavesPoll("wait_oper") =>
             (~init /\ busPc' = Idle /\ busRes'.res = "Ok")]_vars

\* C28: when the hardware acknowledges in the end, every call that polls
\* (construction, finalize, configure, operational_mode) returns.
C28_ReturnsOnAck ==
    /\ Polling("wait_init") ~> (Polling("wait_cce") \/ busPc = Idle)
    /\ Polling("wait_cce") ~> busPc = Idle
    /\ Polling("wait_oper") ~> busPc = Idle

\* C28: both directions
C28_BusyPolls == C28_ReturnsOnlyOnAck /\ C28_ReturnsOnAck

\* finalize has returned after the hardware took its time to clear INIT
C28_Witness ==
    /\ phase = "Operational"
    /\ busRes = [op |-> "finalize", res |-> "Ok"]
    /\ busPc = Idle
    /\ ~init /\ ~initReq

(***************************************************************************)
(* Properties of the order of read and acknowledge in the FIFOs            *)
(***************************************************************************)
\* the driver writes the acknowledge register of the RX FIFO in this step
RxAckWritten == rxPc.pos > 0 /\ rxIn' = rxIn /\ rxf' # rxf
\* the driver writes the acknowledge register of the TX event FIFO
TxeAckWritten == txePc.pos > 0 /\ txeIn' = txeIn /\ txef' # txef

\* C29, RxFifo::receive: the get index is taken from the status read that
\* reported a fill level above zero, the slot is read before the acknowledge
\* is written, and the acknowledged index is that get index.
C29_RxReadThenAck ==
    [][/\ (rxPc.pos = 0 /\ rxPc'.pos > 0) =>
             (rxf.fill > 0 /\ rxPc'.get = rxf.get)
       /\ RxAckWritten =>
             /\ rxPc.msg # 0
             /\ rxf'.get = (rxPc.get + 1) % CapRxFifo0
             /\ rxMode = "Blocking" => rxPc.msg = rxf.mem[rxPc.get]]_vars

\* C29, TxEventFifo::pop: the same order
C29_TxeReadThenAck ==
    [][/\ (txePc.pos = 0 /\ txePc'.pos > 0) =>
             (txef.fill > 0 /\ txePc'.get = txef.get)
       /\ TxeAckWritten =>
             /\ txePc.msg # 0
             /\ txef'.get = (txePc.get + 1) % CapTxEventFifo
             /\ txePc.msg = txef.mem[txePc.get]]_vars

\* C29: in blocking mode the hardware does not write the slot a running call
\* has not acknowledged yet
C29_SlotKept ==
    [][/\ (rxMode = "Blocking" /\ rxPc.pos > 0) =>
             rxf'.mem[rxPc.get] = rxf.mem[rxPc.get]
       /\ txePc.pos > 0 => txef'.mem[txePc.get] = txef.mem[txePc.get]]_vars

\* C29: all parts
C29_ReadBeforeAck == C29_RxReadThenAck /\ C29_TxeReadThenAck /\ C29_SlotKept

\* a blocking RX FIFO that was full during a receive has been refilled after
\* the acknowledge, and an event was popped
C29_Witness ==
    /\ rxMode = "Blocking"
    /\ rxRes.res = "Ok" /\ rxRes.msg = 1
    /\ rxPc.pos = 0
    /\ rxIn > CapRxFifo0
    /\ rxf.fill = CapRxFifo0
    /\ txeRes.res = "Some"

(***************************************************************************)
(* Properties of a successful enable                                       *)
(***************************************************************************)
\* a call of enable has returned Ok in this step
EnableOk == irqTick' # irqTick /\ irqRes'.op = "enable" /\ irqRes'.res = "Ok"

\* C31: a successful enable(S, line) removes exactly S from the registry's
\* owned set, routes every flag of S to the chosen line, sets the enable bit
\* of every flag of S and leaves the line-select and enable bits of every
\* flag outside S as they were.
C31_EnableFrame ==
    [][EnableOk =>
          LET S == irqRes'.req IN
          /\ S \subseteq disabled
          /\ disabled' = disabled \ S
          /\ \A b \in S : (b \in ils') <=> (irqRes'.line = "Line1")
          /\ S \subseteq ie'
          /\ ils' \ S = ils \ S
          /\ ie' \ S = ie \ S]_vars

\* an enable on line 0 has returned Ok while a flag outside the request was
\* routed to line 1 and flags outside the request were enabled
C31_Witness ==
    /\ irqRes.op = "enable" /\ irqRes.res = "Ok"
    /\ irqRes.line = "Line0"
    /\ irqRes.req = {9}
    /\ 0 \in ils
    /\ irqRes.before.ie = {0, 29}
    /\ ie = {0, 9, 29}

(***************************************************************************)
(* Properties of the programmed RAM layout                                 *)
(***************************************************************************)
\* the regions the registers describe, in the order the layout is documented
\* in: start address and length in bytes (RXBC holds no element count; the
\* peripheral takes the dedicated RX buffers up to the next region)
ProgrammedRegions ==
    LET L == fnOut.regs
        c == fnIn.c
    IN  <<[sa |-> L.sidfc.sa, len |-> L.sidfc.n * SizeStdFilter],
          [sa |-> L.xidfc.sa, len |-> L.xidfc.n * SizeExtFilter],
          [sa |-> L.rxf0c.sa, len |-> L.rxf0c.n * MessageSize(c.N)],
          [sa |-> L.rxf1c.sa, len |-> L.rxf1c.n * MessageSize(c.N)],
          [sa |-> L.rxbc.sa, len |-> c.DedicatedRxBuffers * MessageSize(c.N)],
          [sa |-> L.txefc.sa, len |-> L.txefc.n * SizeTxEvent],
          [sa |-> L.txbc.sa,
           len |-> (L.txbc.ndtb + L.txbc.tfqs) * MessageSize(c.N)]>>

RegionBytes(r) == r.sa..(r.sa + r.len - 1)

LayoutDone == fnIn.fn = "layout" /\ fnOut.done /\ fnOut.res = "Ok"

C32_InOrder ==
    LayoutDone =>
        \A i, j \in 1..Len(ProgrammedRegions) :
            (/\ i < j
             /\ ProgrammedRegions[i].len > 0
             /\ ProgrammedRegions[j].len > 0) =>
                ProgrammedRegions[i].sa + ProgrammedRegions[i].len
                    <= ProgrammedRegions[j].sa

C32_Disjoint ==
    LayoutDone =>
        \A i, j \in 1..Len(ProgrammedRegions) :
            i # j => RegionBytes(ProgrammedRegions[i])
                         \cap RegionBytes(ProgrammedRegions[j]) = {}

C32_Inside ==
    LayoutDone =>
        \A i \in 1..Len(ProgrammedRegions) :
            RegionBytes(ProgrammedRegions[i]) \subseteq
                (fnIn.start - SYSTEM_RAM)
                    ..(fnIn.start - SYSTEM_RAM + SizeOfInner(fnIn.c) - 1)

C32_Counts ==
    LayoutDone =>
        LET L == fnOut.regs
            c == fnIn.c
        IN  /\ L.sidfc.n = c.StandardFilters
            /\ L.xidfc.n = c.ExtendedFilters
            /\ L.rxf0c.n = c.RxFifo0
            /\ L.rxf1c.n = c.RxFifo1
            /\ L.txefc.n = c.TxEventFifo
            /\ L.txbc.ndtb = c.DedicatedTxBuffers
            /\ c.DedicatedTxBuffers <= c.TxBuffers
            /\ L.txbc.ndtb + L.txbc.tfqs = c.TxBuffers

\* C32: the regions apply_ram_config programs follow the order standard
\* filters, extended filters, RX FIFO 0, RX FIFO 1, dedicated RX buffers, TX
\* event FIFO, TX buffers; no two of them overlap, each lies inside the
\* shared memory, each programmed count is the descriptor's count, and the
\* dedicated count plus the queue size is the number of TX buffers.
C32_RamLayout == C32_InOrder /\ C32_Disjoint /\ C32_Inside /\ C32_Counts

\* a memory that ends at the last addressable byte has been programmed with
\* every region occupied and a dedicated TX buffer besides the queue
C32_Witness ==
    /\ LayoutDone
    /\ fnIn.start + SizeOfInner(fnIn.c) = SYSTEM_RAM + AddressableSpan
    /\ \A i \in 1..Len(ProgrammedRegions) : ProgrammedRegions[i].len > 0
    /\ fnIn.c.N = 64
    /\ fnOut.regs.txbc.ndtb = 1
    /\ fnOut.regs.txbc.tfqs = 1

(***************************************************************************)
(* Properties of the filter tables from construction on                    *)
(***************************************************************************)
\* the filter tables exist
FiltersConstructed == phase \in {"Configurable", "Operational"}

ZeroElement(t) == Encode(t, [kind |-> "Disabled"])

\* every slot from the length of its table on holds the all-zero element
C33_RestDisabled ==
    FiltersConstructed =>
        \A t \in FilterTables :
            \A i \in DOMAIN filters[t].memory :
                i >= filters[t].len => filters[t].memory[i] = ZeroElement(t)

\* the length of a table counts the successful pushes, and a slot below it
\* keeps the encoding of the filter that push has stored there
C33_PushedKept ==
    [][FiltersConstructed =>
          \A t \in FilterTables :
              /\ \A i \in DOMAIN filters[t].memory :
                    i < filters[t].len =>
                        filters'[t].memory[i] = filters[t].memory[i]
              /\ IF PushReturns /\ busRes'.table = t /\ busRes'.res = "Ok"
                 THEN /\ filters'[t].len = filters[t].len + 1
                      /\ filters'[t].memory[filters[t].len]
                             = Encode(t, busRes'.filter)
                 ELSE filters'[t].len = filters[t].len]_vars

\* the tables are constructed with no push counted
C33_StartEmpty ==
    [][(~FiltersConstructed /\ FiltersConstructed') =>
          \A t \in FilterTables : filters'[t].len = 0]_vars

\* C33: all filters start disabled and stay disabled until pushed: from
\* construction on, every slot at an index at or above the number of
\* successful pushes holds the all-zero element and every slot below it
\* holds the encoding of the filter pushed at that position.
C33_DisabledUntilPushed ==
    []C33_RestDisabled /\ C33_PushedKept /\ C33_StartEmpty

\* one standard filter was pushed and the slot after it is still the
\* all-zero element
C33_Witness ==
    /\ FiltersConstructed
    /\ filters.std.len = 1
    /\ filters.std.memory[0] # ZeroElement("std")
    /\ filters.std.memory[1] = ZeroElement("std")
    /\ filters.ext.len = 0
    /\ busRes.op = "push"

(***************************************************************************)
(* Properties of the ownership of registers                                *)
(***************************************************************************)
\* the registers that can be written only with CCE set, which the
\* controller programs
ProtectedRegs ==
    {"SIDFC", "XIDFC", "RXBC", "RXESC", "RXF0C", "RXF1C", "TXBC", "TXESC",
     "TXEFC", "NBTP", "DBTP", "TSCC", "GFC", "TEST"}

\* the one component each register and each written region of the Message
\* RAM belongs to
OwnerName(name) ==
    IF name \in ProtectedRegs \cup {"CCCR"} THEN "controller"
    ELSE IF name \in {"IE", "ILS", "ILE"} THEN "interrupts"
    ELSE IF name = "RXF0A" THEN "rx_fifo_0"
    ELSE IF name = "RXF1A" THEN "rx_fifo_1"
    ELSE IF name \in {"NDAT1", "NDAT2"} THEN "rx_dedicated_buffers"
    ELSE IF name \in {"TXBAR", "TXBCR", "TXBTIE", "TXBCIE"} THEN "tx"
    ELSE IF name = "TXEFA" THEN "tx_event_fifo"
    ELSE IF name \in {"ram.filters_standard", "ram.filters_extended"}
    THEN "controller"
    ELSE IF name = "ram.tx_buffers" THEN "tx"
    ELSE "nobody"

\* the components that may write `what` in a state with the handles hs; the
\* constructor of the controller has the whole memory before the other
\* components exist
Owners(what, hs, constructing) ==
    IF what[1] = "IR"
    THEN {Handle(h) : h \in {m \in hs : what[2] \in m}}
    ELSE IF constructing /\ what[1] \in RamRegions
    THEN {Comp("controller")}
    ELSE {Comp(OwnerName(what[1]))}

Written == IF wr' # wr THEN wr' ELSE {}

C34_WrittenByOwner ==
    [][\A w \in Written :
          w[1] \in Owners(w[2], ownSt.handles, ownSt.phase = "None")]_vars

C34_ProtectedOnlyConfigurable ==
    [][\A w \in Written :
          w[2][1] \in ProtectedRegs =>
              (ownSt.phase = "Configurable" \/ ownSt'.phase = "Configurable")]_vars

\* no flag of IR is in the masks of two handles, or in a mask and in the
\* registry's own set
C34_OneOwner ==
    /\ \A b \in AllInterrupts :
          Cardinality(Owners(IrBit(b), ownSt.handles, FALSE)) <= 1
    /\ \A h \in ownSt.handles : h \cap ownSt.disabled = {}

OutOfRange ==
    LET t == fnIn.t
        v == RangesOf(fnIn.kind)
    IN  (IF t.sjw \in v.sjw THEN {} ELSE {"SynchronizationJumpWidthOutOfRange"})
        \cup (IF t.phase_seg_1 \in v.phase_seg_1 THEN {}
              ELSE {"PhaseSeg1OutOfRange"})
        \cup (IF t.phase_seg_2 \in v.phase_seg_2 THEN {}
              ELSE {"PhaseSeg2OutOfRange"})
        \cup (IF (1 + t.phase_seg_1 + t.phase_seg_2) \in v.time_quanta_per_bit
              THEN {} ELSE {"BitTimeOutOfRange"})

\* the clock is p times the bit rate times the time quanta per bit
ExactMultiple(p) ==
    LET t == fnIn.t
        tq == 1 + t.phase_seg_1 + t.phase_seg_2
    IN  /\ t.bitrate > 0
        /\ fnIn.f_can % tq = 0
        /\ (fnIn.f_can \div tq) % t.bitrate = 0
        /\ (fnIn.f_can \div tq) \div t.bitrate = p

PrescalerAsClaimed ==
    IF OutOfRange # {}
    THEN ~fnOut.res.ok /\ fnOut.res.err \in OutOfRange
    ELSE IF \E p \in RangesOf(fnIn.kind).prescaler : ExactMultiple(p)
    THEN \E p \in RangesOf(fnIn.kind).prescaler :
            ExactMultiple(p) /\ fnOut.res = Ok(p)
    ELSE IF ExactMultiple((fnIn.f_can \div (1 + fnIn.t.phase_seg_1
                                               + fnIn.t.phase_seg_2))
                          \div (IF fnIn.t.bitrate = 0 THEN 1
                                ELSE fnIn.t.bitrate))
    THEN fnOut.res = Err("PrescalerOutOfRange")
    ELSE fnOut.res = Err("NoValidPrescaler")

\* C35: prescaler returns Ok(p) exactly when the four parameters are inside
\* their ranges, the clock is p times the bit rate times the time quanta per
\* bit and p is inside the prescaler range; the error of a parameter outside
\* its range otherwise, NoValidPrescaler when the division is not exact or
\* the divisor is zero, PrescalerOutOfRange when it is exact with a quotient
\* outside the range.
C35_Prescaler ==
    (fnIn.fn = "prescaler" /\ fnOut.done) => PrescalerAsClaimed

\* the same for timings whose bit rate times time quanta fits 32 bits
C35_PrescalerNoOverflow ==
    (/\ fnIn.fn = "prescaler" /\ fnOut.done
     /\ ~MulU32(fnIn.t.bitrate, 1 + fnIn.t.phase_seg_1
                                  + fnIn.t.phase_seg_2).overflow)
        => PrescalerAsClaimed

(***************************************************************************)
(* Properties of the watermarks                                            *)
(***************************************************************************)
\* C36: a watermark never makes finalize fail: for every u8 watermark the
\* value written to the watermark field of an RX FIFO is min(value, 64) and
\* the one written to the field of the TX event FIFO is min(value, 32), so a
\* value at or above the hardware maximum is clamped, and what is written
\* fits the field (seven bits for FWM; the maximum 32 for EFWM)
C36_WatermarkClamped ==
    (fnIn.fn = "apply_configuration" /\ fnOut.done) =>
        /\ fnOut.res = "Ok"
        /\ fnOut.reg.rxf0c.fwm =
              (IF fnIn.c.rx_fifo_0.watermark >= 64 THEN 64
               ELSE fnIn.c.rx_fifo_0.watermark)
        /\ fnOut.reg.rxf1c.fwm =
              (IF fnIn.c.rx_fifo_1.watermark >= 64 THEN 64
               ELSE fnIn.c.rx_fifo_1.watermark)
        /\ fnOut.reg.txefc.efwm =
              (IF fnIn.c.tx.tx_event_fifo_watermark >= 32 THEN 32
               ELSE fnIn.c.tx.tx_event_fifo_watermark)
        /\ fnOut.reg.rxf0c.fwm \in 0..127
        /\ fnOut.reg.rxf1c.fwm \in 0..127
        /\ fnOut.reg.txefc.efwm \in 0..32

\* largest watermarks of the type on both RX FIFOs and one above the maximum
\* on the TX event FIFO, with CAN FD: accepted and written clamped
C36_Witness ==
    /\ fnIn.fn = "apply_configuration" /\ fnOut.done
    /\ fnIn.c.mode = "Fd"
    /\ fnIn.c.rx_fifo_0.watermark = 255
    /\ fnIn.c.rx_fifo_1.watermark = 128
    /\ fnIn.c.tx.tx_event_fifo_watermark = 33
    /\ fnOut.res = "Ok"
    /\ fnOut.reg.rxf0c.fwm = 64 /\ fnOut.reg.rxf1c.fwm = 64
    /\ fnOut.reg.txefc.efwm = 32

(***************************************************************************)
(* Properties of a failed finalize                                         *)
(***************************************************************************)
\* the errors of the three validations of apply_configuration
TimestampErrors == {"InvalidTimeStampPrescaler"}
BitTimingErrors ==
    {"SynchronizationJumpWidthOutOfRange", "PhaseSeg1OutOfRange",
     "PhaseSeg2OutOfRange", "BitTimeOutOfRange", "PrescalerOutOfRange",
     "NoValidPrescaler"}
\* the validations as finalize finds them in the configuration
TimestampValidated == config.ts_prescaler \in 1..16
NominalValidated ==
    prescaler(config.nominal_timing, CanClock, NOMINAL_BIT_TIMING_RANGES).ok
DataValidated ==
    config.mode = "Fd" =>
        prescaler(config.data_phase_timing, CanClock,
                  DATA_BIT_TIMING_RANGES).ok
\* software clears the INIT bit in this step
ClearsInit == initReq /\ ~initReq'

\* C37: on every error path of finalize the INIT bit is still set when the
\* call returns, and no operational handle is produced
C37_FailKeepsInit ==
    [][FinalizeFails =>
          /\ init /\ initReq /\ init' /\ initReq'
          /\ busPc' = Idle
          /\ busRes'.op = "finalize"
          /\ busRes'.res \in TimestampErrors \cup BitTimingErrors
          /\ ~(TimestampValidated /\ NominalValidated /\ DataValidated)]_vars

\* C37: after a failed finalize the bus is never in operation
C37_StaysInit ==
    (phase = "Dropped" /\ busRes.op = "finalize") => (init /\ initReq)

\* C37: INIT is cleared only after the whole configuration was validated and
\* applied: by finalize after all its deferred writes, or through the handle
\* an earlier finalize has returned (after the peripheral went bus-off),
\* when the registers hold the validated configuration
C37_ClearedAfterApplied ==
    [][ClearsInit =>
          /\ TimestampValidated /\ NominalValidated /\ DataValidated
          /\ \/ /\ phase = "Configurable"
                /\ busPc'.op = "finalize"
                /\ wlog'[Len(wlog')] = "cccr.init"
                /\ {wlog'[i] : i \in 1..(Len(wlog') - 1)}
                      = DeferredWrites(config.mode = "Fd")
             \/ /\ phase = "Operational"
                /\ busPc'.op = "operational_mode"
                /\ apply_configuration(reg, config).reg = reg]_vars

\* C37: all parts
C37_FailedFinalizeStaysInit ==
    C37_FailKeepsInit /\ []C37_StaysInit /\ C37_ClearedAfterApplied

\* finalize has failed on the data phase timing, after NBTP and TSCC were
\* written: INIT is still set
C37_Witness ==
    /\ phase = "Dropped"
    /\ busRes.op = "finalize"
    /\ busRes.res \in BitTimingErrors
    /\ config.mode = "Fd"
    /\ TimestampValidated /\ NominalValidated /\ ~DataValidated
    /\ wlog # <<>>
    /\ init /\ initReq

(***************************************************************************)
(* Properties of cancel by index                                           *)
(***************************************************************************)
\* the buffers that get a cancellation request, or are reported as canceled,
\* in this step
NewlyCanceled == (txbcr' \cup txbcf') \ (txbcr \cup txbcf)

\* C38: cancel(index) and the TxBufferSet built from indices name only the
\* given buffers: for every index, also one of 32 or more that names no TX
\* buffer, cancel(index) writes no cancellation request for a buffer other
\* than index (the bit position is not reduced modulo 32)
C38_CancelNamesIndex ==
    [][\A index \in WideIndices :
          Cancel(index) =>
              /\ NewlyCanceled \subseteq {index}
              /\ cancelPc'.set \subseteq {index}
              /\ cancelRes'.set \subseteq cancelRes.set \cup {index}]_vars

\* what holds in the code: the bit named is index modulo 32, unless the
\* program panics
C38_CancelNamesIndexMod32 ==
    [][\A index \in WideIndices :
          Cancel(index) =>
              /\ NewlyCanceled \subseteq {index % 32}
              /\ cancelPc'.set \subseteq {index % 32}
              /\ cancelRes'.res = "panic" <=> (overflow_checks /\ index >= 32)]_vars

(***************************************************************************)
(* Properties of the values written to the timing registers                *)
(***************************************************************************)
\* the value fits a register field of `width` bits
FitsBits(value, width) == value \in 0..(2 ^ width - 1)
\* apply_configuration has written the register
Wrote(name) == \E i \in 1..Len(fnOut.writes) : fnOut.writes[i] = name

\* C39: whenever the validation of a bit timing succeeds, every value
\* written to the timing registers is in range: sjw - 1, phase_seg_1 - 1,
\* phase_seg_2 - 1 and prescaler - 1 do not underflow and fit their fields
\* (nominal 7, 8, 7 and 9 bits; data phase 4, 5, 4 and 5 bits), and the
\* timestamp prescaler - 1 fits 4 bits
C39_TimingInRange ==
    (fnIn.fn = "apply_configuration" /\ fnOut.done) =>
        /\ fnOut.res = "Ok" => Wrote("nbtp") /\ Wrote("tscc")
        /\ (fnOut.res = "Ok" /\ fnIn.c.mode = "Fd") => Wrote("dbtp")
        /\ Wrote("nbtp") =>
              /\ fnOut.reg.nbtp.nsjw = fnIn.c.nominal_timing.sjw - 1
              /\ fnOut.reg.nbtp.ntseg1 = fnIn.c.nominal_timing.phase_seg_1 - 1
              /\ fnOut.reg.nbtp.ntseg2 = fnIn.c.nominal_timing.phase_seg_2 - 1
              /\ FitsBits(fnOut.reg.nbtp.nsjw, 7)
              /\ FitsBits(fnOut.reg.nbtp.ntseg1, 8)
              /\ FitsBits(fnOut.reg.nbtp.ntseg2, 7)
              /\ FitsBits(fnOut.reg.nbtp.nbrp, 9)
        /\ Wrote("tscc") => FitsBits(fnOut.reg.tscc.tcp, 4)
        /\ Wrote("dbtp") =>
              /\ fnOut.reg.dbtp.dsjw = fnIn.c.data_phase_timing.sjw - 1
              /\ fnOut.reg.dbtp.dtseg1 = fnIn.c.data_phase_timing.phase_seg_1 - 1
              /\ fnOut.reg.dbtp.dtseg2 = fnIn.c.data_phase_timing.phase_seg_2 - 1
              /\ FitsBits(fnOut.reg.dbtp.dsjw, 4)
              /\ FitsBits(fnOut.reg.dbtp.dtseg1, 5)
              /\ FitsBits(fnOut.reg.dbtp.dtseg2, 4)
              /\ FitsBits(fnOut.reg.dbtp.dbrp, 5)

\* the largest valid nominal timing, the largest data phase segment 1 and
\* jump width and the largest timestamp prescaler were accepted and written
C39_Witness ==
    /\ fnIn.fn = "apply_configuration" /\ fnOut.done
    /\ fnOut.res = "Ok"
    /\ fnIn.c.mode = "Fd"
    /\ fnIn.c.nominal_timing = NominalLargest
    /\ fnIn.c.data_phase_timing.sjw = 16
    /\ fnIn.c.data_phase_timing.phase_seg_1 = 32
    /\ fnIn.c.ts_prescaler = 16
    /\ fnOut.reg.nbtp = [nsjw |-> 127, ntseg1 |-> 254, ntseg2 |-> 127,
                         nbrp |-> 0]
    /\ fnOut.reg.dbtp.dsjw = 15 /\ fnOut.reg.dbtp.dtseg1 = 31
    /\ fnOut.reg.tscc.tcp = 15

(***************************************************************************)
(* Properties of the construction of the registry                          *)
(***************************************************************************)
\* C25: immediately after the registry is constructed, whatever the registers
\* held before, the registry owns exactly the flags 0..29 and no bit of IE is
\* set.
C25_AllDisabledAfterNew ==
    (irqRes = NoCall) =>
        /\ disabled = 0..29
        /\ handles = <<>>
        /\ ie = {}

(***************************************************************************)
(* Properties of the interrupt ownership registry                          *)
(***************************************************************************)
HandleIdx == 1..Len(handles)

\* C1: the masks of all outstanding handles and the registry's own set are
\* pairwise disjoint and their union is exactly the 30 flags 0..29: no flag
\* is owned by two holders and no flag is lost.
C1_OwnershipPartition ==
    /\ \A i \in HandleIdx : handles[i] \cap disabled = {}
    /\ \A i, j \in HandleIdx : i # j => handles[i] \cap handles[j] = {}
    /\ disabled \cup UNION {handles[i] : i \in HandleIdx} = AllInterrupts

\* two non-empty handles are outstanding after a handle was given back
C1_Witness ==
    /\ irqRes.op = "disable"
    /\ irqRes.req # {}
    /\ Len(handles) = 2
    /\ \A i \in HandleIdx : handles[i] # {}

\* C2: enable fails with MaskError whenever a requested flag is not owned by
\* the registry, the error carries exactly the requested flags the registry
\* does not own, and a failed enable leaves the registry's set, the handles
\* and IE, ILS and ILE unchanged.
C2_EnableMaskError ==
    [][(irqTick' # irqTick /\ irqRes'.op = "enable") =>
          /\ (irqRes'.req \ disabled # {}) <=> (irqRes'.res = "MaskError")
          /\ irqRes'.res = "MaskError" =>
                /\ irqRes'.err = irqRes'.req \ disabled
                /\ UNCHANGED <<disabled, handles, ie, ils, ile>>]_vars

\* an enable that asked for one owned and one handed-out flag has failed
C2_Witness ==
    /\ irqRes.op = "enable"
    /\ irqRes.res = "MaskError"
    /\ irqRes.err # {}
    /\ irqRes.err # irqRes.req
    /\ ie # {}

(***************************************************************************)
(* Properties of the bus controller                                        *)
(***************************************************************************)
\* C3: if finalize() fails for any validation reason, no configuration
\* register has been written: every register holds the value it had before
\* the call.
C3_FailedFinalizeWritesNothing ==
    [][FinalizeFails => (reg' = reg /\ wlog' = <<>>)]_vars

\* C4: finalize() with a timestamp prescaler outside 1..=16 returns
\* InvalidTimeStampPrescaler and leaves NBTP and the INIT bit as they were;
\* a prescaler inside 1..=16 never gives that error.
C4_TimestampPrescaler ==
    [][(phase = "Configurable" /\ busPc = Idle
        /\ (phase' = "Dropped" \/ busPc'.op = "finalize")) =>
          /\ (config.ts_prescaler \notin 1..16) =>
                /\ phase' = "Dropped"
                /\ busRes' = [op |-> "finalize",
                              res |-> "InvalidTimeStampPrescaler"]
                /\ reg'.nbtp = reg.nbtp
                /\ init' = init /\ initReq' = initReq
          /\ (config.ts_prescaler \in 1..16) =>
                ~(phase' = "Dropped"
                  /\ busRes'.res = "InvalidTimeStampPrescaler")]_vars

\* finalize() has rejected the prescaler 17 on a controller whose NBTP had
\* been programmed by an earlier finalize()
C4_Witness ==
    /\ phase = "Dropped"
    /\ busRes = [op |-> "finalize", res |-> "InvalidTimeStampPrescaler"]
    /\ config.ts_prescaler = 17
    /\ reg.nbtp # RegReset.nbtp
    /\ init

\* C5: CanConfigurable::new with a SharedMemory that is not addressable
\* returns the error without having written any peripheral register, the
\* request to enter configuration mode included.
C5_NotAddressableWritesNothing ==
    (busRes = [op |-> "new", res |-> "MemoryNotAddressableError"]) =>
        (wlog = <<>> /\ ~initReq /\ ~cceReq)

C7_FiltersOnlyWhileConfigurable ==
    [][filters' # filters =>
          /\ phase = "Configurable" \/ busRes'.op = "new"
          /\ phase' = "Configurable"
          /\ init /\ cce]_vars

\* the controller is operational with filters pushed into both tables
C7_Witness ==
    /\ phase = "Operational"
    /\ filters.std.len = CapStdFilters
    /\ filters.ext.len > 0

(***************************************************************************)
(* Properties of the transmit buffers                                      *)
(***************************************************************************)
\* a step in which a call of Tx returns
TxReturns == txTick' # txTick
\* a step in which Tx::transmit is entered with the buffer `txRes'.target`
\* or `txPc'.index`
TxInUse(i) == i \in txbar \cup txbrp

\* C8: Tx never overwrites a message in flight. A transmit on a buffer whose
\* add-request or pending bit is set returns WouldBlock, writes no element
\* and requests nothing; otherwise the element is written first and only
\* then the add-request bit of exactly that buffer is set.
C8_NoOverwriteInFlight ==
    [][/\ \A i \in TxBuffers : txmem'[i] # txmem[i] => ~TxInUse(i)
       /\ (txPc = TxIdle /\ TxReturns /\ txRes'.target \in TxBuffers
           /\ TxInUse(txRes'.target)) =>
              /\ txRes'.res = "WouldBlock"
              /\ UNCHANGED <<txmem, txbar, txbrp>>
       /\ (txPc = TxIdle /\ txPc' # TxIdle) =>
              /\ ~TxInUse(txPc'.index)
              /\ txmem' = [txmem EXCEPT ![txPc'.index] = txPc'.msg]
              /\ UNCHANGED <<txbar, txbrp>>
       /\ (txbar' \ txbar # {}) =>
              /\ txPc # TxIdle
              /\ txbar' = txbar \cup {txPc.index}
              /\ txmem[txPc.index] = txPc.msg
              /\ txmem' = txmem
              /\ txRes'.res = "Ok"]_vars

\* a transmit on a pending buffer that holds another message was refused
C8_Witness ==
    /\ txRes.res = "WouldBlock"
    /\ txRes.op = "dedicated"
    /\ txRes.target = 0
    /\ 0 \in txbrp
    /\ txmem[0] = "m1"
    /\ txbto # {}

\* C9: transmit_dedicated with an index that is not a dedicated TX buffer
\* (index >= the dedicated buffer count) returns OutOfBounds, writes no
\* element and requests nothing; it never writes into a buffer of the queue.
C9_DedicatedIndexChecked ==
    /\ (txRes.op = "dedicated" /\ txRes.index >= CapDedicatedTx) =>
          txRes.res = "OutOfBounds"
    /\ (txPc.op = "dedicated") => txPc.index \in DedicatedBufs

\* C10: transmit_queued returns WouldBlock, writing nothing and requesting
\* nothing, whenever TFQF is set; otherwise it writes the element at the put
\* index and requests that index. From an empty queue of n elements, with
\* no transmission completing, n calls in a row succeed, each adding one
\* pending buffer, and the next one returns WouldBlock.
C10_QueueStep ==
    [][/\ (txPc = TxIdle /\ TxReturns /\ txRes'.op = "queued" /\ TFQF) =>
              /\ txRes'.res = "WouldBlock"
              /\ UNCHANGED <<txmem, txbar, txbrp>>
       /\ (txPc = TxIdle /\ txPc'.op = "queued") =>
              /\ ~TFQF
              /\ txPc'.index = TFQPI
              /\ txmem' = [txmem EXCEPT ![TFQPI] = txPc'.msg]
       /\ (txPc = TxIdle /\ txRes'.op = "queued" /\ TxReturns) => TFQF
       /\ (txPc.op = "queued" /\ TxReturns) =>
              /\ txRes'.res = "Ok"
              /\ txbar' = txbar \cup {txPc.index}
              /\ txbrp' = txbrp \cup {txPc.index}
              /\ txPc.index \notin txbrp
       /\ (txRun'.on /\ txPc' = TxIdle) =>
              /\ \A k \in DOMAIN txRun'.res :
                    txRun'.res[k] = IF k <= Cardinality(QueueBufs)
                                    THEN "Ok" ELSE "WouldBlock"
              /\ Cardinality(txbrp') =
                    IF Len(txRun'.res) <= Cardinality(QueueBufs)
                    THEN Len(txRun'.res) ELSE Cardinality(QueueBufs)]_vars

\* every element of the queue was filled in a row and the call after the
\* last one was refused
C10_Witness ==
    /\ txRun.on
    /\ Len(txRun.res) = Cardinality(QueueBufs) + 1
    /\ txRun.res[Len(txRun.res)] = "WouldBlock"
    /\ txRes.op = "queued"
    /\ \A i \in QueueBufs : i \in txbrp /\ txmem[i] \in TxMsgs

====
